---- MODULE Spec2Model ----
(***************************************************************************)
(* Model of the metadata consolidation engine of paperless-metadata-manager *)
(* (app/routers/base.py, app/paperless_client.py): the request handlers    *)
(* merge_items, preview_merge and delete_items of the MetadataRouter, run   *)
(* against the remote Paperless-ngx system through PaperlessClient, with    *)
(* the bulk-delete fallback of PaperlessClient.bulk_delete_tags.            *)
(*                                                                         *)
(* Every remote call is one step of a handler; each handler keeps its       *)
(* local variables in its own frame and records the remote calls it has     *)
(* issued in frame.calls.                                                   *)
(***************************************************************************)
EXTENDS Integers, Sequences, FiniteSets, TLC

VARIABLES entities, docEnts, nextId, frame, served, args, result

vars == <<entities, docEnts, nextId, frame, served, args, result>>

(* the arguments and the result of a function applied on its own *)
fn == <<args, result>>

remote == <<entities, docEnts, nextId>>

----------------------------------------------------------------------------
(* Bounds of the model *)

NumReqs == 2
MaxServed == 2
MaxSourceLen == 2
MaxCreated == 1
ExtraLen == 1

(* Program constants *)

batch_size == 10

----------------------------------------------------------------------------
(* Small value sets the inputs are drawn from *)

Reqs == 1..NumReqs

InitialIds == {1, 2, 3}
FirstFreeId == Cardinality(InitialIds) + 1
MaxId == FirstFreeId + MaxCreated - 1

ReqIds == 1..FirstFreeId
DocIds == {10, 11, 12}

TargetNames == {"", "a", "C"}

Min(a, b) == IF a < b THEN a ELSE b

RECURSIVE SeqsUpTo(_, _)
SeqsUpTo(S, n) ==
    IF n = 0 THEN {<<>>}
    ELSE LET shorter == SeqsUpTo(S, n - 1)
         IN  shorter \cup {Append(s, x) : s \in {t \in shorter : Len(t) = n - 1}, x \in S}

SourceIdLists == SeqsUpTo(ReqIds, MaxSourceLen)

(* id lists long enough to need more than one fallback batch *)
LongIdLists == {[p \in 1..n |-> p] : n \in batch_size..(batch_size + ExtraLen)}

DeleteIdLists == SourceIdLists \cup LongIdLists

Range(s) == {s[p] : p \in 1..Len(s)}

----------------------------------------------------------------------------
(* str.lower() on the names that occur, and the remote name__iexact filter *)

Lower(n) ==
    CASE n = "A" -> "a"
      [] n = "B" -> "b"
      [] n = "C" -> "c"
      [] n = "D" -> "d"
      [] n = "E" -> "e"
      [] n = "N" -> "n"
      [] n = "W" -> "w"
      [] OTHER -> n

IExact(n, m) == Lower(n) = Lower(m)

----------------------------------------------------------------------------
(* The remote system *)

Ids(items) == {e.id : e \in items}

DocumentsWith(id) == {d \in DocIds : id \in docEnts[d]}

RemoteDelete(ids) ==
    /\ entities' = {e \in entities : e.id \notin ids}
    /\ docEnts' = [d \in DocIds |-> docEnts[d] \ ids]

----------------------------------------------------------------------------
(* One remote call as recorded by the handler that issued it *)

Call(op, name, id, ids, docs, res, status) ==
    [op |-> op, name |-> name, id |-> id, ids |-> ids, docs |-> docs,
     res |-> res, status |-> status]

ErrorStatuses == {403, 404, 500}

(* what a request can come back with: a 2xx response, an error status *)
(* (raise_for_status), a timeout, or another transport failure        *)
Responses ==
    {[res |-> "ok", status |-> 200]}
    \cup {[res |-> "status", status |-> s] : s \in ErrorStatuses}
    \cup {[res |-> "timeout", status |-> 0], [res |-> "transport", status |-> 0]}

ReadFailures == {[res |-> "status", status |-> 500], [res |-> "timeout", status |-> 0]}

NoArgs == [op |-> "none"]

NoResult == [op |-> "none"]

IdleFrame ==
    [pc |-> "idle", kind |-> "none", source_ids |-> <<>>, target_name |-> "",
     ids |-> <<>>, all_items |-> {}, source_items |-> <<>>, target |-> 0,
     all_doc_ids |-> {}, k |-> 1, items_to_delete |-> <<>>, tag_ids |-> <<>>,
     i |-> 0, j |-> 0, batches |-> 0, bulk |-> "none", bulk_status |-> 0,
     outcome |-> "none", status_code |-> 0, affected_count |-> 0,
     merged |-> 0, calls |-> <<>>, before |-> <<>>,
     client |-> 0, session |-> "none", closes |-> 0]

Init ==
    /\ \E withC \in BOOLEAN :
         entities = {[id |-> 1, name |-> "A"], [id |-> 2, name |-> "B"]}
                      \cup (IF withC THEN {[id |-> 3, name |-> "c"]} ELSE {})
    /\ docEnts = (10 :> {1} @@ 11 :> {1, 2} @@ 12 :> {2})
    /\ nextId = FirstFreeId
    /\ frame = [r \in Reqs |-> IdleFrame]
    /\ served = 0
    /\ args = NoArgs
    /\ result = NoResult

----------------------------------------------------------------------------
(* Helpers on frames *)

Log(f, c) == [f EXCEPT !.calls = Append(@, c)]

(* async with PaperlessClient(...) as client: the handler constructs its   *)
(* own client; requests are numbered as they arrive and the client object  *)
(* is named by the number of the request that constructed it               *)
OpenSession(f) == [f EXCEPT !.client = served + 1, !.session = "open"]

(* control leaves the handler; when it is inside the "async with" block,   *)
(* __aexit__ runs on the way out and awaits close()                        *)
CloseSession(f) ==
    IF f.session = "open"
    THEN [f EXCEPT !.session = "closed", !.closes = @ + 1]
    ELSE f

(* a handler that closes its client only on the way to its return statement *)
Raise_WithoutClose(f, outcome, status) ==
    [f EXCEPT !.pc = "done", !.outcome = outcome, !.status_code = status]

(* the handler ends by raising: HTTPException(status) or, for an exception *)
(* nothing catches, the framework's 500 response                           *)
Raise(f, outcome, status) ==
    CloseSession([f EXCEPT !.pc = "done", !.outcome = outcome,
                           !.status_code = status])

(* a handler starts: its local variables are unset; before remembers the  *)
(* remote state the request was issued against                           *)
NewFrame(kind) == [IdleFrame EXCEPT !.kind = kind, !.before = remote]

AllIdle == \A q \in Reqs : frame[q].pc = "idle"

(* item_map = {i.id: i for i in all_items};                                *)
(* source_items = [item_map[sid] for sid in request.source_ids if sid in item_map] *)
ItemMap(all_items, sid) == CHOOSE e \in all_items : e.id = sid

SourceItems(all_items, source_ids) ==
    LET present == SelectSeq(source_ids, LAMBDA sid : sid \in Ids(all_items))
    IN  [p \in 1..Len(present) |-> ItemMap(all_items, present[p])]

(* a merge that forgets to spare the target *)
ItemsToDelete_KeepNothing(source_items, target) ==
    [p \in 1..Len(source_items) |-> source_items[p].id]

(* items_to_delete = [i.id for i in source_items if i.id != target.id] *)
ItemsToDelete(source_items, target) ==
    LET kept == SelectSeq(source_items, LAMBDA it : it.id # target)
    IN  [p \in 1..Len(kept) |-> kept[p].id]

----------------------------------------------------------------------------
(* merge_items (routers/base.py), one action per awaited remote call *)

(* a merge that counts a document once per source it is associated with *)
MergeReturn_SumPerSource(f) ==
    LET c == f.calls
        S[n \in 0..Len(c)] ==
            IF n = 0 THEN 0
            ELSE S[n - 1] + (IF c[n].op = "get_documents"
                             THEN Cardinality(c[n].docs) ELSE 0)
    IN  CloseSession([f EXCEPT !.pc = "done", !.outcome = "success",
                               !.status_code = 200,
                               !.affected_count = S[Len(c)],
                               !.merged = Len(f.source_items)])

(* return OperationResponse(success=True, "Merged {len(source_items)} ...", *)
(*                          affected_count=len(all_doc_ids))                *)
MergeReturn(f) ==
    CloseSession([f EXCEPT !.pc = "done", !.outcome = "success",
                           !.status_code = 200,
                           !.affected_count = Cardinality(f.all_doc_ids),
                           !.merged = Len(f.source_items)])

(* from "items_to_delete = ..." to the bulk_delete call or the return *)
MergeDeletePhase(f) ==
    LET del == ItemsToDelete(f.source_items, f.target)
    IN  IF del = <<>>
        THEN MergeReturn([f EXCEPT !.items_to_delete = del])
        ELSE [f EXCEPT !.items_to_delete = del, !.tag_ids = del, !.pc = "bulk_delete"]

(* a merge without the "if all_doc_ids" check *)
MergeAfterDocs_AlwaysAttach(f) == [f EXCEPT !.pc = "set_on_documents"]

(* a merge that goes straight from collecting the documents to the delete *)
MergeAfterDocs_SkipAttach(f) == MergeDeletePhase(f)

(* from the end of the document loop to the set_on_documents call or on *)
MergeAfterDocs(f) ==
    IF f.all_doc_ids # {}
    THEN [f EXCEPT !.pc = "set_on_documents"]
    ELSE MergeDeletePhase(f)

(* a merge without the "if not request.target_name" check *)
MergeValidate_NoTargetCheck(f) ==
    IF f.source_ids = <<>> THEN Raise(f, "validation", 400)
    ELSE OpenSession([f EXCEPT !.pc = "get_all"])

(* if not request.source_ids: raise 400; if not request.target_name: raise 400; *)
(* then the client session is opened and get_all is awaited                     *)
MergeValidate(f) ==
    IF f.source_ids = <<>> THEN Raise(f, "validation", 400)
    ELSE IF f.target_name = "" THEN Raise(f, "validation", 400)
    ELSE OpenSession([f EXCEPT !.pc = "get_all"])

MergeRequest(r, lists, names) ==
    /\ frame[r].pc = "idle"
    /\ served < MaxServed
    /\ served' = served + 1
    /\ \E source_ids \in lists, target_name \in names :
         frame' = [frame EXCEPT ![r] =
                      MergeValidate([NewFrame("merge") EXCEPT
                                        !.source_ids = source_ids,
                                        !.target_name = target_name])]
    /\ UNCHANGED remote
    /\ UNCHANGED fn

MergeStart(r) == MergeRequest(r, SourceIdLists, TargetNames)

(* a merge without the "if not source_items" check *)
MergeAfterGetAll_NoCheck(f, all_items) ==
    [f EXCEPT !.all_items = all_items,
              !.source_items = SourceItems(all_items, f.source_ids),
              !.pc = "get_by_name"]

(* item_map, source_items and the 404 check after get_all returned all_items *)
MergeAfterGetAll(f, all_items) ==
    LET source_items == SourceItems(all_items, f.source_ids)
    IN  IF source_items = <<>>
        THEN Raise([f EXCEPT !.all_items = all_items], "notfound", 404)
        ELSE [f EXCEPT !.all_items = all_items, !.source_items = source_items,
                       !.pc = "get_by_name"]

MergeGetAll(r) ==
    /\ frame[r].pc = "get_all"
    /\ frame[r].kind = "merge"
    /\ \E resp \in {[res |-> "ok", status |-> 200]} \cup ReadFailures :
         LET f == Log(frame[r], Call("get_all", "", 0, <<>>, {}, resp.res, resp.status))
         IN  frame' = [frame EXCEPT ![r] =
                 IF resp.res # "ok" THEN Raise(f, "error", 500)
                 ELSE MergeAfterGetAll(f, entities)]
    /\ UNCHANGED <<remote, served>>
    /\ UNCHANGED fn

(* a merge that keeps the names being created in the process and refuses a *)
(* second creation of a name another handler is about to create            *)
MergeGetByName_Arbitrated(r) ==
    /\ frame[r].pc = "get_by_name"
    /\ \E resp \in {[res |-> "ok", status |-> 200]} \cup ReadFailures :
         LET f == Log(frame[r], Call("get_by_name", frame[r].target_name, 0, <<>>, {},
                                     resp.res, resp.status))
             results == {e \in entities : IExact(e.name, f.target_name)}
             creating == {q \in Reqs \ {r} :
                             /\ frame[q].pc = "create"
                             /\ IExact(frame[q].target_name, f.target_name)}
         IN  IF resp.res # "ok"
             THEN frame' = [frame EXCEPT ![r] = Raise(f, "error", 500)]
             ELSE IF results = {}
                  THEN frame' = [frame EXCEPT ![r] =
                                    IF creating = {} THEN [f EXCEPT !.pc = "create"]
                                    ELSE Raise(f, "error", 500)]
                  ELSE \E t \in results :
                         frame' = [frame EXCEPT ![r] =
                                      [f EXCEPT !.target = t.id, !.k = 1,
                                                !.pc = "get_documents"]]
    /\ UNCHANGED <<remote, served>>
    /\ UNCHANGED fn

(* a merge whose lookup compares the names as they are written *)
MergeGetByName_ExactCase(r) ==
    /\ frame[r].pc = "get_by_name"
    /\ \E resp \in {[res |-> "ok", status |-> 200]} \cup ReadFailures :
         LET f == Log(frame[r], Call("get_by_name", frame[r].target_name, 0, <<>>, {},
                                     resp.res, resp.status))
             results == {e \in entities : e.name = f.target_name}
         IN  IF resp.res # "ok"
             THEN frame' = [frame EXCEPT ![r] = Raise(f, "error", 500)]
             ELSE IF results = {}
                  THEN frame' = [frame EXCEPT ![r] = [f EXCEPT !.pc = "create"]]
                  ELSE \E t \in results :
                         frame' = [frame EXCEPT ![r] =
                                      [f EXCEPT !.target = t.id, !.k = 1,
                                                !.pc = "get_documents"]]
    /\ UNCHANGED <<remote, served>>
    /\ UNCHANGED fn

(* target = await self.get_by_name(client, request.target_name): the first *)
(* remote entity whose name equals the target name, case-insensitively      *)
MergeGetByName(r) ==
    /\ frame[r].pc = "get_by_name"
    /\ \E resp \in {[res |-> "ok", status |-> 200]} \cup ReadFailures :
         LET f == Log(frame[r], Call("get_by_name", frame[r].target_name, 0, <<>>, {},
                                     resp.res, resp.status))
             results == {e \in entities : IExact(e.name, f.target_name)}
         IN  IF resp.res # "ok"
             THEN frame' = [frame EXCEPT ![r] = Raise(f, "error", 500)]
             ELSE IF results = {}
                  THEN frame' = [frame EXCEPT ![r] = [f EXCEPT !.pc = "create"]]
                  ELSE \E t \in results :
                         frame' = [frame EXCEPT ![r] =
                                      [f EXCEPT !.target = t.id, !.k = 1,
                                                !.pc = "get_documents"]]
    /\ UNCHANGED <<remote, served>>
    /\ UNCHANGED fn

MergeCreate(r) ==
    /\ frame[r].pc = "create"
    /\ \E resp \in {[res |-> "ok", status |-> 200]} \cup ReadFailures :
       \E applied \in BOOLEAN :
         LET f == Log(frame[r], Call("create", frame[r].target_name, 0, <<>>, {},
                                     resp.res, resp.status))
         IN  /\ resp.res = "ok" => applied
             /\ resp.res = "status" => ~applied
             /\ applied => nextId <= MaxId
             /\ IF applied
                THEN /\ entities' = entities \cup {[id |-> nextId, name |-> f.target_name]}
                     /\ nextId' = nextId + 1
                ELSE UNCHANGED <<entities, nextId>>
             /\ frame' = [frame EXCEPT ![r] =
                    IF resp.res # "ok" THEN Raise(f, "error", 500)
                    ELSE [f EXCEPT !.target = nextId, !.k = 1, !.pc = "get_documents"]]
    /\ UNCHANGED <<docEnts, served>>
    /\ UNCHANGED fn

MergeGetDocuments(r) ==
    /\ frame[r].pc = "get_documents"
    /\ frame[r].kind = "merge"
    /\ \E resp \in {[res |-> "ok", status |-> 200]} \cup ReadFailures :
         LET item == frame[r].source_items[frame[r].k]
             docs == DocumentsWith(item.id)
             f == Log(frame[r], Call("get_documents", "", item.id, <<>>,
                                     IF resp.res = "ok" THEN docs ELSE {},
                                     resp.res, resp.status))
             g == [f EXCEPT !.all_doc_ids = @ \cup docs, !.k = @ + 1]
         IN  frame' = [frame EXCEPT ![r] =
                 IF resp.res # "ok" THEN Raise(f, "error", 500)
                 ELSE IF g.k <= Len(g.source_items) THEN g
                 ELSE MergeAfterDocs(g)]
    /\ UNCHANGED <<remote, served>>
    /\ UNCHANGED fn

MergeSetOnDocuments(r) ==
    /\ frame[r].pc = "set_on_documents"
    /\ \E resp \in {[res |-> "ok", status |-> 200]} \cup ReadFailures :
       \E applied \in BOOLEAN :
         LET f == Log(frame[r], Call("set_on_documents", "", frame[r].target, <<>>,
                                     frame[r].all_doc_ids, resp.res, resp.status))
         IN  /\ resp.res = "ok" => applied
             /\ resp.res = "status" => ~applied
             /\ docEnts' = IF applied
                           THEN [d \in DocIds |->
                                   IF d \in f.all_doc_ids THEN docEnts[d] \cup {f.target}
                                   ELSE docEnts[d]]
                           ELSE docEnts
             /\ frame' = [frame EXCEPT ![r] =
                    IF resp.res # "ok" THEN Raise(f, "error", 500)
                    ELSE MergeDeletePhase(f)]
    /\ UNCHANGED <<entities, nextId, served>>
    /\ UNCHANGED fn

----------------------------------------------------------------------------
(* delete_items (routers/base.py) *)

(* return OperationResponse(success=True, affected_count=len(request.ids)) *)
DeleteReturn(f) ==
    CloseSession([f EXCEPT !.pc = "done", !.outcome = "success",
                           !.status_code = 200,
                           !.affected_count = Len(f.ids)])

(* if not request.ids: raise 400; else the session is opened and      *)
(* bulk_delete(client, request.ids) is awaited                        *)
DeleteValidate(f) ==
    IF f.ids = <<>> THEN Raise(f, "validation", 400)
    ELSE OpenSession([f EXCEPT !.tag_ids = f.ids, !.pc = "bulk_delete"])

DeleteRequest(r, lists) ==
    /\ frame[r].pc = "idle"
    /\ served < MaxServed
    /\ served' = served + 1
    /\ \E ids \in lists :
         frame' = [frame EXCEPT ![r] =
                      DeleteValidate([NewFrame("delete") EXCEPT !.ids = ids])]
    /\ UNCHANGED remote
    /\ UNCHANGED fn

DeleteStart(r) == DeleteRequest(r, DeleteIdLists)

----------------------------------------------------------------------------
(* PaperlessClient.bulk_delete_tags, called by merge_items and delete_items *)

(* bulk_delete returned normally: the caller goes on to its return statement *)
BulkReturn(f) ==
    LET g == [f EXCEPT !.bulk = "ok"]
    IN  IF g.kind = "merge" THEN MergeReturn(g) ELSE DeleteReturn(g)

(* a bulk_delete whose failure is not passed on to the caller *)
BulkRaise_ReportSuccess(f, how, status) == BulkReturn(f)

(* bulk_delete raised: merge_items lets the exception through (500), *)
(* delete_items turns it into HTTPException(500) carrying its text   *)
BulkRaise(f, how, status) ==
    Raise([f EXCEPT !.bulk = how, !.bulk_status = status], "error", 500)

(* a bulk_delete that falls back to individual deletes on every error status *)
BulkAfterPost_FallbackOnAnyStatus(f, resp) ==
    CASE resp.res = "ok" -> BulkReturn(f)
      [] resp.res = "status" ->
            [f EXCEPT !.pc = "fallback", !.i = 0, !.j = 0, !.batches = 1]
      [] resp.res = "timeout" -> BulkRaise(f, "timeout", 0)
      [] OTHER -> BulkRaise(f, "generic", 0)

(* raise_for_status and the except clauses around the bulk POST *)
BulkAfterPost(f, resp) ==
    CASE resp.res = "ok" -> BulkReturn(f)
      [] resp.res = "status" /\ resp.status = 404 ->
            [f EXCEPT !.pc = "fallback", !.i = 0, !.j = 0, !.batches = 1]
      [] resp.res = "status" /\ resp.status # 404 ->
            BulkRaise(f, "api_error", resp.status)
      [] resp.res = "timeout" -> BulkRaise(f, "timeout", 0)
      [] OTHER -> BulkRaise(f, "generic", 0)

(* the POST to /api/bulk_edit_objects/ *)
BulkDeletePost(r) ==
    /\ frame[r].pc = "bulk_delete"
    /\ \E resp \in Responses :
       \E applied \in BOOLEAN :
         LET f == Log(frame[r], Call("bulk_delete", "", 0, frame[r].tag_ids, {},
                                     resp.res, resp.status))
         IN  /\ resp.res = "ok" => applied
             /\ resp.res \in {"status", "transport"} => ~applied
             /\ IF applied THEN RemoteDelete(Range(f.tag_ids))
                           ELSE UNCHANGED <<entities, docEnts>>
             /\ frame' = [frame EXCEPT ![r] = BulkAfterPost(f, resp)]
    /\ UNCHANGED <<nextId, served>>
    /\ UNCHANGED fn

(* what DELETE /api/tags/{id}/ can answer: a missing tag is not found *)
DeleteResponses(tag_id) ==
    IF tag_id \in Ids(entities)
    THEN {[res |-> "ok", status |-> 200], [res |-> "status", status |-> 500],
          [res |-> "timeout", status |-> 0]}
    ELSE {[res |-> "status", status |-> 404]}

(* batch = tag_ids[i : i + batch_size] *)
Batch(tag_ids, i) == SubSeq(tag_ids, i + 1, Min(i + batch_size, Len(tag_ids)))

(* a fallback whose loop lets the first failed delete_tag end bulk_delete *)
FallbackNext_AbortOnFailure(f, resp) ==
    LET batch == Batch(f.tag_ids, f.i)
        next_j == f.j + 1
        next_i == f.i + batch_size
    IN  IF resp.res # "ok" THEN BulkRaise(f, "generic", 0)
        ELSE IF next_j < Len(batch) THEN [f EXCEPT !.j = next_j]
        ELSE IF next_i < Len(f.tag_ids)
             THEN [f EXCEPT !.i = next_i, !.j = 0, !.batches = @ + 1]
             ELSE BulkReturn([f EXCEPT !.i = next_i, !.j = 0])

(* after one delete_tag call: "except Exception" swallows whatever it    *)
(* raised, then the inner loop, the outer loop, or the return goes on     *)
FallbackNext(f, resp) ==
    LET batch == Batch(f.tag_ids, f.i)
        next_j == f.j + 1
        next_i == f.i + batch_size
    IN  IF next_j < Len(batch) THEN [f EXCEPT !.j = next_j]
        ELSE IF next_i < Len(f.tag_ids)
             THEN [f EXCEPT !.i = next_i, !.j = 0, !.batches = @ + 1]
             ELSE BulkReturn([f EXCEPT !.i = next_i, !.j = 0])

(* one delete_tag call of the fallback loops *)
FallbackDelete(r) ==
    /\ frame[r].pc = "fallback"
    /\ LET batch == Batch(frame[r].tag_ids, frame[r].i)
           tag_id == batch[frame[r].j + 1]
       IN  \E resp \in DeleteResponses(tag_id) :
           \E applied \in BOOLEAN :
             LET f == Log(frame[r], Call("delete", "", tag_id, <<>>, {},
                                         resp.res, resp.status))
             IN  /\ resp.res = "ok" => applied
                 /\ resp.res = "status" => ~applied
                 /\ IF applied THEN RemoteDelete({tag_id})
                               ELSE UNCHANGED <<entities, docEnts>>
                 /\ frame' = [frame EXCEPT ![r] = FallbackNext(f, resp)]
    /\ UNCHANGED <<nextId, served>>
    /\ UNCHANGED fn

----------------------------------------------------------------------------
(* preview_merge (routers/base.py) *)

PreviewValidate(f) ==
    IF f.source_ids = <<>> THEN Raise(f, "validation", 400)
    ELSE IF f.target_name = "" THEN Raise(f, "validation", 400)
    ELSE OpenSession([f EXCEPT !.pc = "get_all"])

PreviewRequest(r, lists, names) ==
    /\ frame[r].pc = "idle"
    /\ served < MaxServed
    /\ served' = served + 1
    /\ \E source_ids \in lists, target_name \in names :
         frame' = [frame EXCEPT ![r] =
                      PreviewValidate([NewFrame("preview") EXCEPT
                                          !.source_ids = source_ids,
                                          !.target_name = target_name])]
    /\ UNCHANGED remote
    /\ UNCHANGED fn

PreviewStart(r) == PreviewRequest(r, SourceIdLists, TargetNames)

(* a preview that goes on like merge_items: target lookup and creation *)
PreviewAfterGetAll_AsMerge(f, all_items) == MergeAfterGetAll(f, all_items)

(* item_map, source_items and the 404 check after get_all returned all_items *)
PreviewAfterGetAll(f, all_items) ==
    LET source_items == SourceItems(all_items, f.source_ids)
    IN  IF source_items = <<>>
        THEN Raise([f EXCEPT !.all_items = all_items], "notfound", 404)
        ELSE [f EXCEPT !.all_items = all_items, !.source_items = source_items,
                       !.k = 1, !.pc = "get_documents"]

PreviewGetAll(r) ==
    /\ frame[r].pc = "get_all"
    /\ frame[r].kind = "preview"
    /\ \E resp \in {[res |-> "ok", status |-> 200]} \cup ReadFailures :
         LET f == Log(frame[r], Call("get_all", "", 0, <<>>, {}, resp.res, resp.status))
         IN  frame' = [frame EXCEPT ![r] =
                 IF resp.res # "ok" THEN Raise(f, "error", 500)
                 ELSE PreviewAfterGetAll(f, entities)]
    /\ UNCHANGED <<remote, served>>
    /\ UNCHANGED fn

(* return MergePreviewResponse(source_items, target_name,                 *)
(*                             total_documents=len(all_doc_ids), document_ids) *)
PreviewReturn(f) ==
    CloseSession([f EXCEPT !.pc = "done", !.outcome = "success",
                           !.status_code = 200,
                           !.affected_count = Cardinality(f.all_doc_ids)])

PreviewGetDocuments(r) ==
    /\ frame[r].pc = "get_documents"
    /\ frame[r].kind = "preview"
    /\ \E resp \in {[res |-> "ok", status |-> 200]} \cup ReadFailures :
         LET item == frame[r].source_items[frame[r].k]
             docs == DocumentsWith(item.id)
             f == Log(frame[r], Call("get_documents", "", item.id, <<>>,
                                     IF resp.res = "ok" THEN docs ELSE {},
                                     resp.res, resp.status))
             g == [f EXCEPT !.all_doc_ids = @ \cup docs, !.k = @ + 1]
         IN  frame' = [frame EXCEPT ![r] =
                 IF resp.res # "ok" THEN Raise(f, "error", 500)
                 ELSE IF g.k <= Len(g.source_items) THEN g
                 ELSE PreviewReturn(g)]
    /\ UNCHANGED <<remote, served>>
    /\ UNCHANGED fn

----------------------------------------------------------------------------
(* the response has been sent; the handler's frame is gone *)
Respond(r) ==
    /\ frame[r].pc = "done"
    /\ frame' = [frame EXCEPT ![r] = IdleFrame]
    /\ UNCHANGED <<remote, served>>
    /\ UNCHANGED fn

Step(r) ==
    \/ MergeGetAll(r)
    \/ MergeGetByName(r)
    \/ MergeCreate(r)
    \/ MergeGetDocuments(r)
    \/ MergeSetOnDocuments(r)
    \/ BulkDeletePost(r)
    \/ FallbackDelete(r)
    \/ PreviewGetAll(r)
    \/ PreviewGetDocuments(r)
    \/ Respond(r)

(* a new request runs in the first frame that is free *)
FreeSlot(r) ==
    /\ frame[r].pc = "idle"
    /\ \A q \in Reqs : q < r => frame[q].pc # "idle"

(* requests served one after the other *)
Next ==
    \E r \in Reqs :
        \/ AllIdle /\ FreeSlot(r) /\ MergeStart(r)
        \/ AllIdle /\ FreeSlot(r) /\ PreviewStart(r)
        \/ AllIdle /\ FreeSlot(r) /\ DeleteStart(r)
        \/ Step(r)

Spec == Init /\ [][Next]_vars

(* merge requests only, served one after the other *)
MaxMerges == 1

MergeStep(r) ==
    \/ MergeGetAll(r)
    \/ MergeGetByName(r)
    \/ MergeCreate(r)
    \/ MergeGetDocuments(r)
    \/ MergeSetOnDocuments(r)
    \/ BulkDeletePost(r)
    \/ FallbackDelete(r)
    \/ Respond(r)

MergeNext ==
    \E r \in Reqs :
        \/ AllIdle /\ FreeSlot(r) /\ served < MaxMerges /\ MergeStart(r)
        \/ MergeStep(r)

MergeSpec == Init /\ [][MergeNext]_vars

(* requests served as they arrive: every handler is a coroutine of its own, *)
(* suspended at its awaits, and nothing orders the handlers of two requests *)
ConcSourceIdLists == {s \in SourceIdLists : Len(s) = 1 /\ s[1] \in {1, 2}}

ConcTargetNames == TargetNames \ {""}

MergeStartConc(r) == MergeRequest(r, ConcSourceIdLists, ConcTargetNames)

PreviewStartConc(r) == PreviewRequest(r, ConcSourceIdLists, ConcTargetNames)

DeleteStartConc(r) == DeleteRequest(r, ConcSourceIdLists)

(* the two requests of a race *)
Pair == {r \in Reqs : r \in {1, 2}}

ConcNext ==
    \E r \in Pair :
        \/ served < Cardinality(Pair) /\ FreeSlot(r) /\ MergeStartConc(r)
        \/ served < Cardinality(Pair) /\ FreeSlot(r) /\ PreviewStartConc(r)
        \/ served < Cardinality(Pair) /\ FreeSlot(r) /\ DeleteStartConc(r)
        \/ Step(r)

ConcSpec == Init /\ [][ConcNext]_vars

----------------------------------------------------------------------------
(* Names as sequences of characters, and the string operations on them *)

Separators == {" ", "_", "-"}

(* str.lower() of a name *)
LowerName(name) == [p \in 1..Len(name) |-> Lower(name[p])]

(* the code points of the characters that occur in lowercased names *)
Ord(c) ==
    CASE c = " " -> 32
      [] c = "-" -> 45
      [] c = "_" -> 95
      [] c = "a" -> 97
      [] c = "b" -> 98
      [] c = "c" -> 99
      [] c = "d" -> 100
      [] c = "e" -> 101
      [] c = "n" -> 110
      [] c = "t" -> 116
      [] c = "w" -> 119
      [] c = "x" -> 120

(* a < b for two strings *)
StrLess(a, b) ==
    \E p \in 1..(Len(b)) :
        /\ p <= Len(a) + 1
        /\ \A q \in 1..(p - 1) : a[q] = b[q]
        /\ (p = Len(a) + 1 \/ Ord(a[p]) < Ord(b[p]))

(* key=lambda x: x.name.lower() *)
ByName(x, y) == StrLess(LowerName(x.name), LowerName(y.name))

(* a sort key without the sign on the document count *)
ByCountThenName_Ascending(x, y) ==
    \/ x.document_count < y.document_count
    \/ /\ x.document_count = y.document_count
       /\ StrLess(LowerName(x.name), LowerName(y.name))

(* key=lambda t: (-t.document_count, t.name.lower()) *)
ByCountThenName(x, y) ==
    \/ x.document_count > y.document_count
    \/ /\ x.document_count = y.document_count
       /\ StrLess(LowerName(x.name), LowerName(y.name))

(* the order of two items under a sort key *)
Before(key, x, y) ==
    IF key = "name" THEN ByName(x, y) ELSE ByCountThenName(x, y)

(* sorted(items, key=...), a stable sort: an item is preceded by the items *)
(* its key puts ahead of it and by the earlier items of equal key          *)
Sorted(items, key) ==
    LET n == Len(items)
        ahead(p) == {q \in 1..n :
                        \/ Before(key, items[q], items[p])
                        \/ q < p /\ ~Before(key, items[p], items[q])}
    IN  [r \in 1..n |-> items[CHOOSE p \in 1..n : Cardinality(ahead(p)) = r - 1]]

(* items[start:end] of a Python list (0-based, end excluded, negative *)
(* indices counted from the end, out-of-range indices clipped)          *)
Slice(items, start, end) ==
    LET n == Len(items)
        clip(v) == IF v < 0 THEN (IF n + v < 0 THEN 0 ELSE n + v)
                   ELSE Min(v, n)
        lo == clip(start)
        hi == clip(end)
    IN  IF lo < hi THEN SubSeq(items, lo + 1, hi) ELSE <<>>

(* a paginate that counts its pages from 0 *)
paginate_FromZero(items, page, page_size) ==
    LET total == Len(items)
        total_pages == IF page_size > 0
                       THEN (total + page_size - 1) \div page_size
                       ELSE 1
        start_idx == page * page_size
        end_idx == start_idx + page_size
    IN  [items |-> Slice(items, start_idx, end_idx), total |-> total,
         total_pages |-> total_pages]

(* paginate (routers/base.py) and the same lines inlined in the list endpoints *)
paginate(items, page, page_size) ==
    LET total == Len(items)
        total_pages == IF page_size > 0
                       THEN (total + page_size - 1) \div page_size
                       ELSE 1
        start_idx == (page - 1) * page_size
        end_idx == start_idx + page_size
    IN  [items |-> Slice(items, start_idx, end_idx), total |-> total,
         total_pages |-> total_pages]

(* defaults of the query parameters page and page_size *)
DefaultPage == 1
DefaultPageSize == 50

(* the rest of the state is the quiet server *)
Quiet ==
    /\ entities = {[id |-> 1, name |-> "A"], [id |-> 2, name |-> "B"]}
    /\ docEnts = (10 :> {1} @@ 11 :> {1, 2} @@ 12 :> {2})
    /\ nextId = FirstFreeId
    /\ frame = [r \in Reqs |-> IdleFrame]
    /\ served = 0

----------------------------------------------------------------------------
(* The low-usage filter (paperless_client.py) and the endpoints built on it *)

MaxTags == 2
MaxCount == 2

(* "New x", "a new", "tax" *)
LowUsageNames ==
    {<<"N", "e", "w", " ", "x">>, <<"a", " ", "n", "e", "w">>, <<"t", "a", "x">>}

(* EXCLUDE_PATTERNS unset, and "in,NEW" *)
PatternLists == {<<>>, << <<"i", "n">>, <<"N", "E", "W">> >>}

(* matching_algorithm: 1 (any word) and 6 (auto) *)
MatchingAlgorithms == {1, 6}

(* max_docs: the defaults of the correspondent and of the tag endpoint *)
MaxDocsValues == {0, 1}

ItemShapes ==
    [name : LowUsageNames, document_count : 0..MaxCount,
     matching_algorithm : MatchingAlgorithms]

(* the items as the remote system lists them, ids in listing order *)
ItemLists(shapes, n) ==
    {[p \in 1..Len(s) |->
         [id |-> p, name |-> s[p].name, document_count |-> s[p].document_count,
          matching_algorithm |-> s[p].matching_algorithm]] : s \in SeqsUpTo(shapes, n)}

(* Tag.is_auto, Correspondent.is_auto *)
is_auto(item) == item.matching_algorithm = 6

(* re.search(pattern, name, re.IGNORECASE) for a pattern of plain characters *)
Search_AtStart(pattern, name) ==
    /\ Len(pattern) <= Len(name)
    /\ \A k \in 1..Len(pattern) : Lower(name[k]) = Lower(pattern[k])

Search(pattern, name) ==
    \E p \in 0..(Len(name) - Len(pattern)) :
        \A k \in 1..Len(pattern) : Lower(name[p + k]) = Lower(pattern[k])

(* the loop over exclude_patterns that sets excluded *)
MatchesAny(exclude_patterns, name) ==
    \E p \in 1..Len(exclude_patterns) : Search(exclude_patterns[p], name)

(* a filter whose bound is exclusive *)
OverLimit_Exclusive(item, max_docs) == item.document_count >= max_docs

(* if tag.document_count > max_docs: continue *)
OverLimit(item, max_docs) == item.document_count > max_docs

(* a filter that keeps auto-matching tags *)
find_low_usage_tags_KeepAuto(tags, max_docs, exclude_patterns) ==
    LET keep(tag) == /\ ~OverLimit(tag, max_docs)
                     /\ ~MatchesAny(exclude_patterns, tag.name)
    IN  SelectSeq(tags, keep)

(* find_low_usage_tags(tags, max_docs, exclude_patterns): low_usage in the *)
(* order of tags                                                           *)
find_low_usage_tags(tags, max_docs, exclude_patterns) ==
    LET keep(tag) == /\ ~OverLimit(tag, max_docs)
                     /\ ~MatchesAny(exclude_patterns, tag.name)
                     /\ ~is_auto(tag)
    IN  SelectSeq(tags, keep)

find_low_usage_correspondents(correspondents, max_docs, exclude_patterns) ==
    LET keep(correspondent) ==
            /\ ~OverLimit(correspondent, max_docs)
            /\ ~MatchesAny(exclude_patterns, correspondent.name)
            /\ ~is_auto(correspondent)
    IN  SelectSeq(correspondents, keep)

(* the keyword parameters of find_low_usage_tags and of                    *)
(* find_low_usage_correspondents                                           *)
find_low_usage_parameters == {"max_docs", "exclude_patterns"}

(* the keywords list_low_usage_items and list_low_usage_tags pass *)
list_low_usage_keywords == {"max_docs", "exclude_patterns", "exclude_auto"}

Returned(op, items) ==
    [op |-> op, status |-> 200, error |-> "none", items |-> items,
     total |-> Len(items), total_pages |-> 0]

Page(op, p) ==
    [op |-> op, status |-> 200, error |-> "none", items |-> p.items,
     total |-> p.total, total_pages |-> p.total_pages]

(* an exception no handler catches: the framework answers 500 *)
Failed(op, error) ==
    [op |-> op, status |-> 500, error |-> error, items |-> <<>>,
     total |-> 0, total_pages |-> 0]

LowUsageInit ==
    /\ Quiet
    /\ \E tags \in ItemLists(ItemShapes, MaxTags), max_docs \in MaxDocsValues,
          exclude_patterns \in PatternLists, exclude_auto \in BOOLEAN :
         args = [op |-> "low_usage", tags |-> tags, max_docs |-> max_docs,
                 exclude_patterns |-> exclude_patterns,
                 exclude_auto |-> exclude_auto]
    /\ result = NoResult

(* find_low_usage_tags(tags, max_docs=..., exclude_patterns=...) *)
FindLowUsageTags ==
    /\ result = NoResult
    /\ result' = Returned("find_low_usage_tags",
                          find_low_usage_tags(args.tags, args.max_docs,
                                              args.exclude_patterns))
    /\ UNCHANGED <<remote, frame, served, args>>

FindLowUsageCorrespondents ==
    /\ result = NoResult
    /\ result' = Returned("find_low_usage_correspondents",
                          find_low_usage_correspondents(args.tags, args.max_docs,
                                                        args.exclude_patterns))
    /\ UNCHANGED <<remote, frame, served, args>>

(* GET /api/tags/low-usage (routers/tags.py) and list_low_usage_items       *)
(* (routers/base.py): the filter is called with exclude_auto=exclude_auto   *)
ListLowUsageItems ==
    /\ result = NoResult
    /\ result' =
         IF list_low_usage_keywords \subseteq find_low_usage_parameters
         THEN Page("list_low_usage_items",
                   paginate(Sorted(find_low_usage_tags(args.tags, args.max_docs,
                                                       args.exclude_patterns), "name"),
                            DefaultPage, DefaultPageSize))
         ELSE Failed("list_low_usage_items", "TypeError")
    /\ UNCHANGED <<remote, frame, served, args>>

(* GET /api/correspondents/low-usage (routers/correspondents.py): the       *)
(* endpoint has no exclude_auto parameter                                   *)
ListLowUsageCorrespondents ==
    /\ result = NoResult
    /\ result' = Page("list_low_usage_correspondents",
                      paginate(Sorted(find_low_usage_correspondents(
                                          args.tags, args.max_docs,
                                          args.exclude_patterns), "name"),
                               DefaultPage, DefaultPageSize))
    /\ UNCHANGED <<remote, frame, served, args>>

LowUsageNext ==
    \/ FindLowUsageTags
    \/ FindLowUsageCorrespondents
    \/ ListLowUsageItems
    \/ ListLowUsageCorrespondents

LowUsageSpec == LowUsageInit /\ [][LowUsageNext]_vars

----------------------------------------------------------------------------
(* The prefix grouper (paperless_client.py) and the endpoint built on it *)

MaxGroupTags == 3

(* "ab-c", "AB c", "abc", "abcd", "-ab", "a_b", "ab_ " *)
GroupNames ==
    {<<"a", "b", "-", "c">>, <<"A", "B", " ", "c">>, <<"a", "b", "c">>,
     <<"a", "b", "c", "d">>, <<"-", "a", "b">>, <<"a", "_", "b">>,
     <<"a", "b", "_", " ">>}

GroupCounts == {0, 1}

(* min_prefix_length: the default and one below it *)
MinPrefixLengths == {2, 3}

GroupShapes ==
    [name : GroupNames, document_count : GroupCounts, matching_algorithm : {1}]

(* re.split(r"[\s_\-]+", name): every run of separators ends a token and *)
(* starts the next one, which is empty when the name ends there          *)
RECURSIVE SplitFrom(_, _, _)
SplitFrom(name, p, token) ==
    IF p > Len(name) THEN <<token>>
    ELSE IF name[p] \in Separators
         THEN LET rest == {q \in (p + 1)..Len(name) : name[q] \notin Separators}
                  next == IF rest = {} THEN Len(name) + 1
                          ELSE CHOOSE q \in rest : \A o \in rest : q <= o
              IN  <<token>> \o SplitFrom(name, next, <<>>)
         ELSE SplitFrom(name, p + 1, Append(token, name[p]))

Split(name) == SplitFrom(name, 1, <<>>)

(* a grouper that does not split the name *)
Prefix_FirstChars(name, min_prefix_length) ==
    LET name_lower == LowerName(name)
    IN  IF Len(name_lower) >= min_prefix_length
        THEN SubSeq(name_lower, 1, min_prefix_length)
        ELSE name_lower

(* prefix, as the loop body of group_tags_by_prefix computes it *)
Prefix(name, min_prefix_length) ==
    LET name_lower == LowerName(name)
        parts == Split(name_lower)
    IN  IF Len(parts) > 1 THEN parts[1]
        ELSE IF Len(name_lower) >= min_prefix_length
             THEN SubSeq(name_lower, 1, min_prefix_length)
             ELSE name_lower

(* the items at the positions in ps, in the order of the list *)
At(items, ps) ==
    [r \in 1..Cardinality(ps) |->
        items[CHOOSE p \in ps : Cardinality({q \in ps : q < p}) = r - 1]]

(* group_tags_by_prefix(tags, min_prefix_length): the returned dict as a *)
(* function from its keys to the sorted lists                            *)
group_tags_by_prefix(tags, min_prefix_length) ==
    LET prefix == [p \in 1..Len(tags) |-> Prefix(tags[p].name, min_prefix_length)]
        groups == [k \in {prefix[p] : p \in {q \in 1..Len(tags) :
                                                Len(prefix[q]) >= min_prefix_length}} |->
                      At(tags, {p \in 1..Len(tags) : prefix[p] = k})]
    IN  [k \in {g \in DOMAIN groups : Len(groups[g]) > 1} |->
            Sorted(groups[k], "count_name")]

group_correspondents_by_prefix(correspondents, min_prefix_length) ==
    LET prefix == [p \in 1..Len(correspondents) |->
                      Prefix(correspondents[p].name, min_prefix_length)]
        groups == [k \in {prefix[p] : p \in {q \in 1..Len(correspondents) :
                                                Len(prefix[q]) >= min_prefix_length}} |->
                      At(correspondents, {p \in 1..Len(correspondents) : prefix[p] = k})]
    IN  [k \in {g \in DOMAIN groups : Len(groups[g]) > 1} |->
            Sorted(groups[k], "count_name")]

(* sum(t.document_count for t in tags) *)
RECURSIVE TotalDocuments(_)
TotalDocuments(items) ==
    IF items = <<>> THEN 0
    ELSE Head(items).document_count + TotalDocuments(Tail(items))

Grouped(op, groups) ==
    [op |-> op, status |-> 200, error |-> "none", groups |-> groups,
     total_documents |-> [k \in DOMAIN groups |-> TotalDocuments(groups[k])],
     total_groups |-> Cardinality(DOMAIN groups)]

GroupInit ==
    /\ Quiet
    /\ \E tags \in ItemLists(GroupShapes, MaxGroupTags),
          min_prefix_length \in MinPrefixLengths :
         args = [op |-> "group", tags |-> tags,
                 min_prefix_length |-> min_prefix_length]
    /\ result = NoResult

GroupTagsByPrefix ==
    /\ result = NoResult
    /\ result' = Grouped("group_tags_by_prefix",
                         group_tags_by_prefix(args.tags, args.min_prefix_length))
    /\ UNCHANGED <<remote, frame, served, args>>

GroupCorrespondentsByPrefix ==
    /\ result = NoResult
    /\ result' = Grouped("group_correspondents_by_prefix",
                         group_correspondents_by_prefix(args.tags,
                                                        args.min_prefix_length))
    /\ UNCHANGED <<remote, frame, served, args>>

(* GET /api/correspondents/merge-suggestions without a prefix filter: the *)
(* groups under the keys of group_correspondents_by_prefix                *)
CorrespondentMergeSuggestions ==
    /\ result = NoResult
    /\ result' = Grouped("correspondents_merge_suggestions",
                         group_correspondents_by_prefix(args.tags,
                                                        args.min_prefix_length))
    /\ UNCHANGED <<remote, frame, served, args>>

GroupNext ==
    \/ GroupTagsByPrefix
    \/ GroupCorrespondentsByPrefix
    \/ CorrespondentMergeSuggestions

GroupSpec == GroupInit /\ [][GroupNext]_vars

----------------------------------------------------------------------------
(* The hybrid grouper behind GET /api/tags/merge-suggestions. routers/tags.py *)
(* imports group_tags_hybrid from paperless_client.py, which does not define  *)
(* it; the function is written here as the specification of the hybrid and    *)
(* of the semantic grouper describes it.                                      *)

MaxHybridTags == 4
MaxSimilarPairs == 1

(* "ab-c" with a document, "AB d", "b x" *)
HybridShapes ==
    {[name |-> <<"a", "b", "-", "c">>, document_count |-> 1, matching_algorithm |-> 1],
     [name |-> <<"A", "B", " ", "d">>, document_count |-> 0, matching_algorithm |-> 1],
     [name |-> <<"b", " ", "x">>, document_count |-> 0, matching_algorithm |-> 1]}

(* the pairs of entities whose similarity score reaches the threshold; the *)
(* score itself is left to the implementation                              *)
SimilarPairs ==
    [n \in 0..MaxHybridTags |->
        {S \in SUBSET UNION {{{p, q} : q \in (p + 1)..n} : p \in 1..n} :
            Cardinality(S) <= MaxSimilarPairs}]

PrefixNamespace == <<"p", "r", "e", "f", "i", "x", ":">>

SemanticNamespace == <<"s", "e", "m", "a", "n", "t", "i", "c", ":">>

(* group_key.startswith(namespace) *)
StartsWith(key, namespace) ==
    /\ Len(key) >= Len(namespace)
    /\ SubSeq(key, 1, Len(namespace)) = namespace

(* the entities linked to those of S by a chain of similar pairs *)
RECURSIVE Component(_, _)
Component(S, pairs) ==
    LET T == S \cup UNION {pr \in pairs : pr \cap S # {}}
    IN  IF T = S THEN S ELSE Component(T, pairs)

(* the semantic grouper over the entities at the positions in remaining: the *)
(* connected components of two or more, each under "semantic:" and the first  *)
(* token of the lowercased name of its member with the most documents; of two *)
(* components with the same key the map keeps the later one                   *)
group_by_similarity(tags, remaining, similar) ==
    LET pairs == {pr \in similar : pr \subseteq remaining}
        components == {c \in {Component({p}, pairs) : p \in remaining} :
                          Cardinality(c) >= 2}
        first == [c \in components |-> CHOOSE p \in c : \A q \in c : p <= q]
        representative ==
            [c \in components |->
                CHOOSE p \in c :
                    \A q \in c : \/ tags[p].document_count > tags[q].document_count
                                 \/ /\ tags[p].document_count = tags[q].document_count
                                    /\ p <= q]
        key == [c \in components |->
                   SemanticNamespace \o Split(LowerName(tags[representative[c]].name))[1]]
        kept == [k \in {key[c] : c \in components} |->
                    CHOOSE c \in components :
                        /\ key[c] = k
                        /\ \A d \in components : key[d] = k => first[d] <= first[c]]
    IN  [k \in DOMAIN kept |-> At(tags, kept[k])]

(* a hybrid that runs the semantic grouper over all the entities *)
group_tags_hybrid_SemanticOverAll(tags, min_prefix_length, similar, enable_semantic) ==
    LET by_prefix == group_tags_by_prefix(tags, min_prefix_length)
        prefix_groups == [k \in {PrefixNamespace \o g : g \in DOMAIN by_prefix} |->
                             by_prefix[SubSeq(k, Len(PrefixNamespace) + 1, Len(k))]]
        semantic_groups == IF enable_semantic
                           THEN group_by_similarity(tags, 1..Len(tags), similar)
                           ELSE <<>>
    IN  prefix_groups @@ semantic_groups

(* groupHybrid: the prefix groups under "prefix:" keys and, when semantic *)
(* grouping is enabled, the semantic groups of the entities that are in no *)
(* prefix group                                                           *)
group_tags_hybrid(tags, min_prefix_length, similar, enable_semantic) ==
    LET by_prefix == group_tags_by_prefix(tags, min_prefix_length)
        prefix_groups == [k \in {PrefixNamespace \o g : g \in DOMAIN by_prefix} |->
                             by_prefix[SubSeq(k, Len(PrefixNamespace) + 1, Len(k))]]
        claimed == UNION {Range(by_prefix[g]) : g \in DOMAIN by_prefix}
        remaining == {p \in 1..Len(tags) : tags[p] \notin claimed}
        semantic_groups == IF enable_semantic
                           THEN group_by_similarity(tags, remaining, similar)
                           ELSE <<>>
    IN  prefix_groups @@ semantic_groups

HybridInit ==
    /\ Quiet
    /\ \E tags \in ItemLists(HybridShapes, MaxHybridTags),
          min_prefix_length \in MinPrefixLengths, enable_semantic \in BOOLEAN :
       \E similar \in (IF enable_semantic THEN SimilarPairs[Len(tags)] ELSE {{}}) :
         args = [op |-> "hybrid", tags |-> tags,
                 min_prefix_length |-> min_prefix_length,
                 similar |-> similar, enable_semantic |-> enable_semantic]
    /\ result = NoResult

(* GET /api/tags/merge-suggestions without a prefix filter: every group of *)
(* the hybrid map with its tags, total_documents and group_type            *)
TagMergeSuggestions ==
    /\ result = NoResult
    /\ LET groups == group_tags_hybrid(args.tags, args.min_prefix_length,
                                       args.similar, args.enable_semantic)
           response == Grouped("tags_merge_suggestions", groups)
       IN  result' = [op |-> response.op, status |-> response.status,
                      error |-> response.error, groups |-> response.groups,
                      total_documents |-> response.total_documents,
                      total_groups |-> response.total_groups,
                      group_type |-> [k \in DOMAIN groups |->
                                         IF StartsWith(k, SemanticNamespace)
                                         THEN "semantic" ELSE "prefix"]]
    /\ UNCHANGED <<remote, frame, served, args>>

HybridNext == TagMergeSuggestions

HybridSpec == HybridInit /\ [][HybridNext]_vars

----------------------------------------------------------------------------
(* The paginated list endpoints: list_items (routers/base.py) and list_tags *)
(* (routers/tags.py)                                                        *)

MaxItems == 3
MaxPage == 3
MaxPageSize == 2

(* "ab", "B" *)
PageShapes ==
    {[name |-> <<"a", "b">>, document_count |-> 0, matching_algorithm |-> 1],
     [name |-> <<"B">>, document_count |-> 0, matching_algorithm |-> 1]}

(* no filter, "b", "x" *)
Filters == {<<>>, <<"b">>, <<"x">>}

(* if filter: items = [i for i in items if filter.lower() in i.name.lower()] *)
Filtered(items, filter) ==
    IF filter = <<>> THEN items
    ELSE SelectSeq(items, LAMBDA i : Search(filter, i.name))

PageInit ==
    /\ Quiet
    /\ \E items \in ItemLists(PageShapes, MaxItems), page \in 1..MaxPage,
          page_size \in 0..MaxPageSize, filter \in Filters :
         args = [op |-> "list", items |-> items, page |-> page,
                 page_size |-> page_size, filter |-> filter]
    /\ result = NoResult

(* GET /api/{prefix}: filter, sort by lowercase name, paginate *)
ListItems ==
    /\ result = NoResult
    /\ result' = Page("list_items",
                      paginate(Sorted(Filtered(args.items, args.filter), "name"),
                               args.page, args.page_size))
    /\ UNCHANGED <<remote, frame, served, args>>

(* GET /api/tags: the same, with the lines of paginate written out *)
ListTags ==
    /\ result = NoResult
    /\ LET sorted_tags == Sorted(Filtered(args.items, args.filter), "name")
           total == Len(sorted_tags)
           total_pages == IF args.page_size > 0
                          THEN (total + args.page_size - 1) \div args.page_size
                          ELSE 1
           start_idx == (args.page - 1) * args.page_size
           end_idx == start_idx + args.page_size
       IN  result' = Page("list_tags",
                          [items |-> Slice(sorted_tags, start_idx, end_idx),
                           total |-> total, total_pages |-> total_pages])
    /\ UNCHANGED <<remote, frame, served, args>>

PageNext ==
    \/ ListItems
    \/ ListTags

PageSpec == PageInit /\ [][PageNext]_vars

----------------------------------------------------------------------------
(* The PATCH endpoints: update_item (routers/base.py), update_tag          *)
(* (routers/tags.py) and update_correspondent (routers/correspondents.py)  *)

(* the fields of UpdateRequest in routers/base.py and routers/tags.py *)
UpdateFields == {"name", "color", "match", "matching_algorithm", "is_insensitive"}

(* the fields of UpdateRequest in routers/correspondents.py: the model *)
(* ignores a color sent in the body                                     *)
CorrespondentUpdateFields == UpdateFields \ {"color"}

(* the name an update request carries when it carries one *)
NewName == "D"

UpdateItemIds == {1, FirstFreeId}

(* what PATCH /api/tags/{id}/ can answer *)
UpdateResponses(item_id) ==
    IF item_id \in Ids(entities)
    THEN {[res |-> "ok", status |-> 200], [res |-> "status", status |-> 500],
          [res |-> "timeout", status |-> 0]}
    ELSE {[res |-> "status", status |-> 404]}

(* the remote system applies an update: of the fields, the model keeps the name *)
RemoteUpdate(item_id, update_data) ==
    IF "name" \in update_data
    THEN {IF e.id = item_id THEN [e EXCEPT !.name = NewName] ELSE e : e \in entities}
    ELSE entities

Updated(op, status, error, calls) ==
    [op |-> op, status |-> status, error |-> error, calls |-> calls]

UpdateInit ==
    /\ Quiet
    /\ \E item_id \in UpdateItemIds, fields \in SUBSET UpdateFields,
          has_color \in BOOLEAN :
         args = [op |-> "update", item_id |-> item_id, fields |-> fields,
                 has_color |-> has_color]
    /\ result = NoResult

(* update_data = {k: v for k, v in request.dict().items() if v is not None}, *)
(* without color when the router has no color                               *)
UpdateData(fields, has_color) ==
    IF ~has_color THEN fields \ {"color"} ELSE fields

(* except Exception as e: raise HTTPException(status_code=500, ...) around *)
(* the whole handler body, the HTTPException(400) of the body included     *)
WrapException(status) == 500

(* the awaited update call and what the handler does with its outcome; *)
(* every failure of the call ends in the handler's "except Exception"  *)
UpdateCall(op, update_data) ==
    \E resp \in UpdateResponses(args.item_id) :
    \E applied \in BOOLEAN :
        /\ resp.res = "ok" => applied
        /\ resp.res = "status" => ~applied
        /\ entities' = IF applied THEN RemoteUpdate(args.item_id, update_data)
                       ELSE entities
        /\ result' = Updated(op, IF resp.res = "ok" THEN 200 ELSE 500,
                             IF resp.res = "ok" THEN "none" ELSE "update",
                             <<[id |-> args.item_id, data |-> update_data,
                                res |-> resp.res]>>)

(* PATCH /api/{prefix}/{item_id} of a MetadataRouter: "except HTTPException: *)
(* raise" lets the 400 through                                               *)
UpdateItem ==
    /\ result = NoResult
    /\ LET update_data == UpdateData(args.fields, args.has_color)
       IN  IF update_data = {}
           THEN /\ result' = Updated("update_item", 400, "validation", <<>>)
                /\ UNCHANGED entities
           ELSE UpdateCall("update_item", update_data)
    /\ UNCHANGED <<docEnts, nextId, frame, served, args>>

(* PATCH /api/tags/{tag_id} *)
UpdateTag ==
    /\ result = NoResult
    /\ LET update_data == args.fields
       IN  IF update_data = {}
           THEN /\ result' = Updated("update_tag", WrapException(400),
                                     "validation", <<>>)
                /\ UNCHANGED entities
           ELSE UpdateCall("update_tag", update_data)
    /\ UNCHANGED <<docEnts, nextId, frame, served, args>>

(* PATCH /api/correspondents/{correspondent_id} *)
UpdateCorrespondent ==
    /\ result = NoResult
    /\ LET update_data == args.fields \cap CorrespondentUpdateFields
       IN  IF update_data = {}
           THEN /\ result' = Updated("update_correspondent", WrapException(400),
                                     "validation", <<>>)
                /\ UNCHANGED entities
           ELSE UpdateCall("update_correspondent", update_data)
    /\ UNCHANGED <<docEnts, nextId, frame, served, args>>

UpdateNext ==
    \/ UpdateItem
    \/ UpdateTag
    \/ UpdateCorrespondent

UpdateSpec == UpdateInit /\ [][UpdateNext]_vars

----------------------------------------------------------------------------
(* The parser of the LLM answer (llm_client.py): LLMClient._parse_response *)
(* and LLMClient._recover_partial_json. A text is a sequence of characters *)

MaxLLMGroups == 2

Quote == "\""

(* a member of a JSON array: a string or a number, v its characters *)
Str(v) == [t |-> "str", v |-> v]
Num(v) == [t |-> "num", v |-> v]

(* the values of the answers: ["a","b"], ["a","a"], ["a","a","b"], ["a"], *)
(* ["","a","b"], [1,"1"], [1,"a"] and the string "a" where a list belongs  *)
LLMValues ==
    {[list |-> TRUE, members |-> l] :
        l \in {<<Str(<<"a">>), Str(<<"b">>)>>,
               <<Str(<<"a">>), Str(<<"a">>)>>,
               <<Str(<<"a">>), Str(<<"a">>), Str(<<"b">>)>>,
               <<Str(<<"a">>)>>,
               <<Str(<<>>), Str(<<"a">>), Str(<<"b">>)>>,
               <<Num(<<"1">>), Str(<<"1">>)>>,
               <<Num(<<"1">>), Str(<<"a">>)>>}}
    \cup {[list |-> FALSE, members |-> <<Str(<<"a">>)>>]}

(* the keys of an answer, by position: a JSON object has each key once *)
LLMKeys == <<"g", "h", "k", "m">>

(* the answers the model can mean to give: an object of groups, or the *)
(* bare array of one group                                              *)
LLMDocs ==
    {[dict |-> TRUE, values |-> vs] : vs \in SeqsUpTo(LLMValues, MaxLLMGroups)}
    \cup {[dict |-> FALSE, values |-> <<v>>] : v \in {w \in LLMValues : w.list}}

(* words the model puts before its JSON *)
Proses == {<<>>, <<"a", " ">>}

RECURSIVE Join(_, _)
Join(texts, sep) ==
    IF texts = <<>> THEN <<>>
    ELSE IF Len(texts) = 1 THEN texts[1]
    ELSE texts[1] \o sep \o Join(Tail(texts), sep)

(* the JSON text of a document, as json.dumps(..., separators=(",", ":")) *)
DumpMember(m) == IF m.t = "str" THEN <<Quote>> \o m.v \o <<Quote>> ELSE m.v

DumpValue(value) ==
    IF value.list
    THEN <<"[">> \o Join([p \in 1..Len(value.members) |->
                             DumpMember(value.members[p])], <<",">>) \o <<"]">>
    ELSE DumpMember(value.members[1])

Dump(doc) ==
    IF doc.dict
    THEN <<"{">> \o Join([p \in 1..Len(doc.values) |->
                             <<Quote, LLMKeys[p], Quote, ":">> \o DumpValue(doc.values[p])],
                         <<",">>) \o <<"}">>
    ELSE DumpValue(doc.values[1])

(* str.find and str.rfind of one character, 1-based, 0 when it is absent *)
Find(text, from, chars) ==
    LET hits == {p \in from..Len(text) : text[p] \in chars}
    IN  IF hits = {} THEN 0 ELSE CHOOSE p \in hits : \A q \in hits : p <= q

RFind(text, chars) ==
    LET hits == {p \in 1..Len(text) : text[p] \in chars}
    IN  IF hits = {} THEN 0 ELSE CHOOSE p \in hits : \A q \in hits : q <= p

(* if not content.startswith("{"): content = content[start : end + 1] when *)
(* both a "{" and a "}" are found                                          *)
ExtractObject(content) ==
    IF content # <<>> /\ content[1] = "{" THEN content
    ELSE LET start == Find(content, 1, {"{"})
             end == RFind(content, {"}"})
         IN  IF start # 0 /\ end # 0 THEN SubSeq(content, start, end)
             ELSE content

(* json.loads: the document the text is the JSON of; a text cut short, or *)
(* with words around it, is the JSON of nothing (JSONDecodeError)          *)
json_loads(content, doc) ==
    IF content = Dump(doc) THEN [ok |-> TRUE, value |-> doc]
    ELSE [ok |-> FALSE, value |-> doc]

(* "if item": an empty string, a zero and null are skipped *)
Truthy(m) == IF m.t = "str" THEN m.v # <<>> ELSE m.v # <<"0">>

(* the loop "for item in value" with its set seen: str(item) of the items *)
(* that are truthy and were not seen before                                *)
Deduplicated(value) ==
    LET keep == {p \in 1..Len(value) :
                    /\ Truthy(value[p])
                    /\ \A q \in 1..(p - 1) :
                          ~(Truthy(value[q]) /\ value[q].v = value[p].v)}
        kept == At(value, keep)
    IN  [r \in 1..Len(kept) |-> kept[r].v]

(* the loop over groups.items() of _parse_response *)
ValidGroups(doc) ==
    LET items == [p \in 1..Len(doc.values) |-> Deduplicated(doc.values[p].members)]
        good == {p \in 1..Len(doc.values) :
                    /\ doc.values[p].list
                    /\ Len(doc.values[p].members) >= 2
                    /\ Len(items[p]) >= 2}
    IN  [key \in {<<LLMKeys[p]>> : p \in good} |->
            items[CHOOSE p \in good : <<LLMKeys[p]>> = key]]

NoMatch == [ok |-> FALSE, name |-> <<>>, items_str |-> <<>>, stop |-> 0]

(* where the array opened before position p closes: the second group of *)
(* the pattern takes runs without brackets and bracketed runs without     *)
(* brackets inside, up to the closing bracket; 0 when there is no match   *)
RECURSIVE CloseOf(_, _)
CloseOf(content, p) ==
    IF p > Len(content) THEN 0
    ELSE IF content[p] = "]" THEN p
    ELSE IF content[p] = "["
         THEN LET q == Find(content, p + 1, {"[", "]"})
              IN  IF q = 0 \/ content[q] = "[" THEN 0
                  ELSE CloseOf(content, q + 1)
    ELSE CloseOf(content, p + 1)

(* the pattern of _recover_partial_json tried at position p: a quoted   *)
(* name of at least one character, a colon, blanks, and a closed array  *)
MatchGroup(content, p) ==
    LET q == Find(content, p + 1, {Quote})
        colon == q + 1
        blanks == {r \in (colon + 1)..Len(content) :
                      \A s \in (colon + 1)..r : content[s] = " "}
        open == colon + 1 + Cardinality(blanks)
        close == CloseOf(content, open + 1)
    IN  IF content[p] # Quote \/ q = 0 \/ q = p + 1 THEN NoMatch
        ELSE IF colon > Len(content) \/ content[colon] # ":" THEN NoMatch
        ELSE IF open > Len(content) \/ content[open] # "[" THEN NoMatch
        ELSE IF close = 0 THEN NoMatch
        ELSE [ok |-> TRUE, name |-> SubSeq(content, p + 1, q - 1),
              items_str |-> SubSeq(content, open + 1, close - 1), stop |-> close]

(* re.finditer(pattern, content): the matches from left to right, the *)
(* search going on after each match                                    *)
RECURSIVE FindGroups(_, _)
FindGroups(content, p) ==
    IF p > Len(content) THEN <<>>
    ELSE LET m == MatchGroup(content, p)
         IN  IF m.ok THEN <<m>> \o FindGroups(content, m.stop + 1)
             ELSE FindGroups(content, p + 1)

(* re.findall of the quoted runs of at least one character, from left *)
(* to right, the search going on after each closing quote             *)
RECURSIVE FindQuoted(_, _)
FindQuoted(text, p) ==
    IF p > Len(text) THEN <<>>
    ELSE IF text[p] # Quote THEN FindQuoted(text, p + 1)
    ELSE LET q == Find(text, p + 1, {Quote})
         IN  IF q = 0 THEN <<>>
             ELSE IF q = p + 1 THEN FindQuoted(text, p + 1)
             ELSE <<SubSeq(text, p + 1, q - 1)>> \o FindQuoted(text, q + 1)

(* items = re.findall(...): the quoted strings of the array, as found *)
RecoveredItems(items_str) == FindQuoted(items_str, 1)

(* LLMClient._recover_partial_json: a later match of a name replaces an *)
(* earlier one                                                           *)
recover_partial_json(content) ==
    LET matches == FindGroups(content, 1)
        items == [p \in 1..Len(matches) |-> RecoveredItems(matches[p].items_str)]
        good == {p \in 1..Len(matches) :
                    /\ LowerName(matches[p].name) # <<"g", "r", "o", "u", "p", "s">>
                    /\ Len(items[p]) >= 2}
    IN  [key \in {matches[p].name : p \in good} |->
            items[CHOOSE p \in good :
                     /\ matches[p].name = key
                     /\ \A q \in good : matches[q].name = key => q <= p]]

Parsed(path, groups) == [op |-> "parse_response", path |-> path, groups |-> groups]

(* LLMClient._parse_response for a text without blank ends, control *)
(* characters, <think> section or code fence                          *)
parse_response(content, doc) ==
    LET extracted == ExtractObject(content)
        loaded == json_loads(extracted, doc)
    IN  IF ~loaded.ok
        THEN Parsed("recovered", recover_partial_json(extracted))
        ELSE IF ~loaded.value.dict THEN Parsed("not_dict", <<>>)
        ELSE Parsed("json", ValidGroups(loaded.value))

(* the answer of the model is the text of a document after some words, *)
(* or such a text cut short by the token limit                          *)
LLMInit ==
    /\ Quiet
    /\ \E doc \in LLMDocs, prose \in Proses :
       \E cut \in 0..Len(prose \o Dump(doc)) :
         args = [op |-> "parse", doc |-> doc,
                 content |-> SubSeq(prose \o Dump(doc), 1, cut)]
    /\ result = NoResult

ParseResponse ==
    /\ result = NoResult
    /\ result' = parse_response(args.content, args.doc)
    /\ UNCHANGED <<remote, frame, served, args>>

LLMNext == ParseResponse

LLMSpec == LLMInit /\ [][LLMNext]_vars

----------------------------------------------------------------------------
(* The paginated fetches of PaperlessClient: get_all_tags and            *)
(* get_documents_with_tag follow the "next" link of each page they get    *)

MaxRemotePages == 3

(* a fetch is followed for at most this many pages *)
MaxVisits == MaxRemotePages + 2

RemotePages == 1..MaxRemotePages

(* the results of the pages of the remote listing: one page is empty and *)
(* one repeats an entity of the first page                               *)
PageResults == <<<<1, 2>>, <<>>, <<3>>, <<1>>, <<2>>>>

(* how the remote system writes its next links: as a path, as an absolute *)
(* URL under the configured base URL, or as an absolute URL under another *)
(* name of the server                                                     *)
LinkHosts == {"", "base", "other"}

Url(host, page) == [host |-> host, page |-> page]

NoUrl == Url("", 0)

(* data.get("next") of a page: None for the page without a next link *)
NextLink(page) ==
    IF args.links[page] = 0 THEN NoUrl ELSE Url(args.host, args.links[page])

(* if next_url.startswith("http"): url = next_url.replace(self.base_url, "") *)
(* else: url = next_url                                                     *)
StripBase(next_url) ==
    IF next_url.host = "base" THEN Url("", next_url.page) ELSE next_url

(* what self.client.get(url) can come back with *)
FetchResponses(url) ==
    {[res |-> "ok", status |-> 200]} \cup ReadFailures
    \cup (IF url.host = "other" THEN {[res |-> "transport", status |-> 0]} ELSE {})

Fetching(op) ==
    [op |-> op, pc |-> "loop", url |-> Url("", 1), items |-> <<>>, visited |-> <<>>]

(* a loop that stops at a page without results *)
AfterPage_StopOnEmptyPage(cur, page) ==
    LET next_url == NextLink(page)
        fetched == [cur EXCEPT !.items = @ \o PageResults[page],
                               !.visited = Append(@, page)]
    IN  IF next_url # NoUrl /\ PageResults[page] # <<>>
        THEN [fetched EXCEPT !.url = StripBase(next_url)]
        ELSE [fetched EXCEPT !.url = NoUrl, !.pc = "returned"]

(* the body of "while url" after a page arrived: its results are appended, *)
(* url becomes the next link, or None, which ends the loop                 *)
AfterPage(cur, page) ==
    LET next_url == NextLink(page)
        fetched == [cur EXCEPT !.items = @ \o PageResults[page],
                               !.visited = Append(@, page)]
    IN  IF next_url # NoUrl
        THEN [fetched EXCEPT !.url = StripBase(next_url)]
        ELSE [fetched EXCEPT !.url = NoUrl, !.pc = "returned"]

(* one turn of the loop: the request, raise_for_status, the page *)
FetchPage(op) ==
    LET cur == IF result = NoResult THEN Fetching(op) ELSE result
    IN  /\ cur.op = op
        /\ cur.pc = "loop"
        /\ Len(cur.visited) < MaxVisits
        /\ \E resp \in FetchResponses(cur.url) :
             result' = IF resp.res # "ok" THEN [cur EXCEPT !.pc = "raised"]
                       ELSE AfterPage(cur, cur.url.page)
        /\ UNCHANGED <<remote, frame, served, args>>

FetchInit ==
    /\ Quiet
    /\ \E links \in [RemotePages -> 0..MaxRemotePages], host \in LinkHosts :
         args = [op |-> "fetch", links |-> links, host |-> host]
    /\ result = NoResult

GetAllTagsPage == FetchPage("get_all_tags")

GetDocumentsWithTagPage == FetchPage("get_documents_with_tag")

FetchNext ==
    \/ GetAllTagsPage
    \/ GetDocumentsWithTagPage

FetchSpec == FetchInit /\ [][FetchNext]_vars

(* a request that was sent is answered, or times out, and the coroutine *)
(* goes on                                                              *)
FairFetchSpec == FetchSpec /\ WF_vars(FetchNext)

----------------------------------------------------------------------------
(* Vocabulary of the properties *)

Frames == {frame[r] : r \in Reqs}

Started(f) == f.pc # "idle"

Done(f) == f.pc = "done"

Positions(f) == 1..Len(f.calls)

CallsOf(f, op) == {p \in Positions(f) : f.calls[p].op = op}

(* the remote state the request was issued against *)
EntitiesBefore(f) == f.before[1]
DocEntsBefore(f) == f.before[2]

(* the source entities of the request: the requested ids that exist remotely *)
Resolved(f) == Range(f.source_ids) \cap Ids(EntitiesBefore(f))

(* the requested ids in request order, those without an entity dropped *)
ResolvedList(f) == SelectSeq(f.source_ids, LAMBDA sid : sid \in Ids(EntitiesBefore(f)))

(* the documents associated with at least one source entity *)
DocUnion(f) == {d \in DocIds : DocEntsBefore(f)[d] \cap Resolved(f) # {}}

(* the ids of the calls of one operation, in the order they were issued *)
IdsOfCalls(calls, op) ==
    LET sel == SelectSeq(calls, LAMBDA x : x.op = op)
    IN  [p \in 1..Len(sel) |-> sel[p].id]

MutatingOps == {"create", "set_on_documents", "bulk_delete", "delete"}

----------------------------------------------------------------------------
(* C1: the ids a merge asks the remote system to delete are exactly the ids *)
(* of the resolved sources without the target's id: every bulk-delete call  *)
(* carries exactly that set, every individual delete is for one of its ids, *)
(* and a merge that succeeds has issued a delete call if and only if that   *)
(* set is not empty (no delete call when the only source is the target).    *)
C1_DeletesSourcesButTarget ==
    \A f \in Frames :
        f.kind = "merge" =>
            LET expected == Resolved(f) \ {f.target}
            IN  /\ \A p \in Positions(f) :
                      /\ f.calls[p].op = "bulk_delete" =>
                            Range(f.calls[p].ids) = expected
                      /\ f.calls[p].op = "delete" => f.calls[p].id \in expected
                /\ (Done(f) /\ f.outcome = "success") =>
                      (expected # {} <=> CallsOf(f, "bulk_delete") # {})

(* a merge whose target is one of its sources, found under a name that  *)
(* differs in case, has deleted another source and kept the target      *)
C1_Witness ==
    \E f \in Frames :
        /\ f.kind = "merge" /\ Done(f) /\ f.outcome = "success"
        /\ f.target \in Resolved(f)
        /\ \E e \in entities : e.id = f.target /\ e.name # f.target_name
        /\ \E p \in CallsOf(f, "bulk_delete") :
              f.calls[p].ids # <<>> /\ f.target \notin Range(f.calls[p].ids)

(* C1's second witness case: the only resolved source is the target *)
C1_WitnessOnlyTarget ==
    \E f \in Frames :
        /\ f.kind = "merge" /\ Done(f) /\ f.outcome = "success"
        /\ Resolved(f) = {f.target}
        /\ CallsOf(f, "bulk_delete") = {}

----------------------------------------------------------------------------
Rank(op) ==
    CASE op = "get_all" -> 1
      [] op = "get_by_name" -> 2
      [] op = "create" -> 3
      [] op = "get_documents" -> 4
      [] op = "set_on_documents" -> 5
      [] op = "bulk_delete" -> 6
      [] op = "delete" -> 7

(* C2: the remote calls of one merge come in the order get_all, get_by_name, *)
(* (create), get_documents per resolved source, (set_on_documents),          *)
(* (bulk_delete and its individual deletes); a call is issued only after the *)
(* calls before the delete step have succeeded; no delete call is issued     *)
(* before the documents of every source were fetched and, when the document  *)
(* union is not empty, the attach call succeeded; a failed attach call is    *)
(* the last call of the merge, which ends with an error.                     *)
C2_CallOrder ==
    \A f \in Frames :
        f.kind = "merge" =>
            LET c == f.calls
                fetched(q) == IdsOfCalls(SubSeq(c, 1, q - 1), "get_documents")
            IN  /\ \A p, q \in Positions(f) :
                      p < q => /\ Rank(c[p].op) <= Rank(c[q].op)
                               /\ Rank(c[p].op) = Rank(c[q].op) =>
                                     c[p].op \in {"get_documents", "delete"}
                               /\ Rank(c[p].op) <= 5 => c[p].res = "ok"
                /\ \A q \in Positions(f) :
                      /\ Rank(c[q].op) >= 2 => c[1].op = "get_all"
                      /\ Rank(c[q].op) >= 4 => CallsOf(f, "get_by_name") # {}
                      /\ Rank(c[q].op) >= 5 => fetched(q) = ResolvedList(f)
                      /\ Rank(c[q].op) >= 6 /\ DocUnion(f) # {} =>
                            \E p \in 1..(q - 1) : /\ c[p].op = "set_on_documents"
                                                  /\ c[p].res = "ok"
                      /\ c[q].op = "delete" => CallsOf(f, "bulk_delete") # {}
                      /\ (c[q].op = "set_on_documents" /\ c[q].res # "ok") =>
                            /\ q = Len(c)
                            /\ Done(f) /\ f.outcome = "error"
                            /\ Resolved(f) \subseteq Ids(entities)

(* a merge that created its target, attached it and then deleted its sources *)
C2_Witness ==
    \E f \in Frames :
        /\ f.kind = "merge" /\ Done(f)
        /\ CallsOf(f, "create") # {}
        /\ Cardinality(CallsOf(f, "get_documents")) >= 2
        /\ CallsOf(f, "set_on_documents") # {}
        /\ CallsOf(f, "bulk_delete") # {}

(* C2's failure case: the attach call failed *)
C2_WitnessAttachFailed ==
    \E f \in Frames :
        /\ f.kind = "merge" /\ Done(f)
        /\ \E p \in CallsOf(f, "set_on_documents") : f.calls[p].res # "ok"

----------------------------------------------------------------------------
BulkFailed(f) ==
    \E p \in CallsOf(f, "bulk_delete") :
        /\ f.calls[p].res # "ok"
        /\ ~(f.calls[p].res = "status" /\ f.calls[p].status = 404)

AttachSucceeded(f) ==
    \E p \in CallsOf(f, "set_on_documents") : f.calls[p].res = "ok"

(* C3: when the attach call of a merge succeeded and the bulk delete then   *)
(* failed (the bulk request came back with an error other than 404), the    *)
(* failed bulk request is the last remote call of the merge (no detach, no  *)
(* delete of the target), every document of the union is associated with    *)
(* the target, which still exists, and the merge ends with an error.        *)
C3_NoRollbackOnDeleteFailure ==
    \A f \in Frames :
        (f.kind = "merge" /\ AttachSucceeded(f) /\ BulkFailed(f)) =>
            /\ Done(f)
            /\ f.outcome = "error"
            /\ f.calls[Len(f.calls)].op = "bulk_delete"
            /\ CallsOf(f, "delete") = {}
            /\ Cardinality(CallsOf(f, "bulk_delete")) = 1
            /\ Cardinality(CallsOf(f, "set_on_documents")) = 1
            /\ f.target \in Ids(entities)
            /\ \A d \in DocUnion(f) : f.target \in docEnts[d]

(* a merge that created its target, attached it and whose bulk delete failed *)
C3_Witness ==
    \E f \in Frames :
        /\ f.kind = "merge" /\ Done(f)
        /\ AttachSucceeded(f) /\ BulkFailed(f)
        /\ CallsOf(f, "create") # {}
        /\ DocUnion(f) # {}

----------------------------------------------------------------------------
(* C4: a merge that succeeds reports as affected_count the number of        *)
(* distinct documents associated with at least one resolved source, and as  *)
(* merged count the number of requested source ids that resolved.           *)
C4_Counts ==
    \A f \in Frames :
        (f.kind = "merge" /\ Done(f) /\ f.outcome = "success") =>
            /\ f.affected_count = Cardinality(DocUnion(f))
            /\ f.merged = Len(ResolvedList(f))

(* two sources that share a document: 2 + 2 associations, 3 documents *)
C4_Witness ==
    \E f \in Frames :
        /\ f.kind = "merge" /\ Done(f) /\ f.outcome = "success"
        /\ Cardinality(Resolved(f)) = 2
        /\ \E d \in DocIds : Cardinality(DocEntsBefore(f)[d] \cap Resolved(f)) = 2
        /\ f.affected_count = 3
        /\ f.merged = 2

----------------------------------------------------------------------------
FetchedAll(f) ==
    /\ Len(f.calls) >= 1
    /\ f.calls[1].op = "get_all"
    /\ f.calls[1].res = "ok"

(* C5: when no requested source id has an entity in the fetched list, merge *)
(* and preview end with NotFound (404) after the one get_all call and the   *)
(* remote state is untouched; an id without an entity never appears in a    *)
(* document-list call or in a delete call.                                  *)
C5_NotFoundWithoutMutation ==
    \A f \in Frames :
        f.kind \in {"merge", "preview"} =>
            /\ (FetchedAll(f) /\ Resolved(f) = {}) =>
                  /\ Done(f)
                  /\ f.outcome = "notfound" /\ f.status_code = 404
                  /\ Len(f.calls) = 1
                  /\ remote = f.before
            /\ \A p \in Positions(f) :
                  /\ f.calls[p].op \in {"get_documents", "delete"} =>
                        f.calls[p].id \in Resolved(f)
                  /\ f.calls[p].op = "bulk_delete" =>
                        Range(f.calls[p].ids) \subseteq Resolved(f)

(* a merge whose only source id has no entity *)
C5_Witness ==
    \E f \in Frames :
        /\ f.kind = "merge" /\ Done(f) /\ f.outcome = "notfound"
        /\ f.source_ids # <<>> /\ Resolved(f) = {}

(* C5's other cases: a preview with no resolved source *)
C5_WitnessPreview ==
    \E f \in Frames :
        /\ f.kind = "preview" /\ Done(f) /\ f.outcome = "notfound"
        /\ f.source_ids # <<>> /\ Resolved(f) = {}

(* C5's other cases: a merge that dropped one of two ids and deleted the other *)
C5_WitnessDropped ==
    \E f \in Frames :
        /\ f.kind = "merge" /\ Done(f) /\ f.outcome = "success"
        /\ Range(f.source_ids) \ Resolved(f) # {}
        /\ CallsOf(f, "bulk_delete") # {}

----------------------------------------------------------------------------
InvalidRequest(f) ==
    \/ f.kind \in {"merge", "preview"} /\ (f.source_ids = <<>> \/ f.target_name = "")
    \/ f.kind = "delete" /\ f.ids = <<>>

(* C6: a merge or preview request with an empty source_ids list or an empty *)
(* target_name, and a delete request with an empty id list, ends at once    *)
(* with a validation error (400) without any remote call.                   *)
C6_ValidationBeforeAnyCall ==
    \A f \in Frames :
        (Started(f) /\ InvalidRequest(f)) =>
            /\ Done(f)
            /\ f.outcome = "validation" /\ f.status_code = 400
            /\ f.calls = <<>>
            /\ remote = f.before

(* a merge request with source ids and an empty target name *)
C6_Witness ==
    \E f \in Frames :
        /\ f.kind = "merge" /\ Done(f)
        /\ f.source_ids # <<>> /\ f.target_name = ""

(* C6's other cases: preview without source ids, delete without ids *)
C6_WitnessPreview ==
    \E f \in Frames : f.kind = "preview" /\ Done(f) /\ f.source_ids = <<>>

C6_WitnessDelete ==
    \E f \in Frames : f.kind = "delete" /\ Done(f) /\ f.ids = <<>>

----------------------------------------------------------------------------
(* C7: a preview issues only get_all and get_documents calls and leaves the *)
(* remote state as it found it; what a successful preview returns is        *)
(* determined by the request and the remote state alone (the entities of    *)
(* the resolved ids in request order, the documents associated with one of  *)
(* them), so two previews of one request against one remote state return    *)
(* the same source items and the same document-id union.                    *)
C7_PreviewReadsOnly ==
    \A f \in Frames :
        f.kind = "preview" =>
            /\ \A p \in Positions(f) : f.calls[p].op \in {"get_all", "get_documents"}
            /\ remote = f.before
            /\ (Done(f) /\ f.outcome = "success") =>
                  /\ Len(f.source_items) = Len(ResolvedList(f))
                  /\ \A p \in 1..Len(f.source_items) :
                        /\ f.source_items[p] \in entities
                        /\ f.source_items[p].id = ResolvedList(f)[p]
                  /\ f.all_doc_ids =
                        {d \in DocIds : docEnts[d] \cap Range(f.source_ids) # {}}
                  /\ f.affected_count = Cardinality(f.all_doc_ids)

(* a preview of two sources with documents has returned *)
C7_Witness ==
    \E f \in Frames :
        /\ f.kind = "preview" /\ Done(f) /\ f.outcome = "success"
        /\ Len(f.source_items) = 2
        /\ f.all_doc_ids # {}
        /\ Cardinality(CallsOf(f, "get_documents")) = 2

----------------------------------------------------------------------------
(* C8: when the bulk endpoint answers 404, the ids of the list get one      *)
(* individual delete attempt each, in list order and in batches of at most  *)
(* 10: the attempts made so far are a prefix of the list, nothing but       *)
(* individual deletes follows the bulk request, the batch begun is number   *)
(* attempts div 10 + 1, and bulk_delete returns only after ceil(n/10)       *)
(* batches with every id attempted, failed attempts included.               *)
C8_FallbackAttemptsEveryId ==
    \A f \in Frames :
        \A p \in CallsOf(f, "bulk_delete") :
            (f.calls[p].res = "status" /\ f.calls[p].status = 404) =>
                LET ids == f.calls[p].ids
                    n == Len(ids)
                    after == SubSeq(f.calls, p + 1, Len(f.calls))
                    attempts == IdsOfCalls(after, "delete")
                    a == Len(attempts)
                IN  /\ a = Len(after)
                    /\ a <= n
                    /\ attempts = SubSeq(ids, 1, a)
                    /\ a < n => /\ f.pc = "fallback"
                                /\ f.batches = (a \div 10) + 1
                                /\ f.i = 10 * (a \div 10)
                                /\ f.j = a % 10
                    /\ a = n => /\ Done(f)
                                /\ f.bulk = "ok"
                                /\ f.batches = (n + 9) \div 10

(* a fallback over more than 10 ids has ended; a delete of the first batch *)
(* failed and a later one of the same batch and of the next batch was made *)
C8_Witness ==
    \E f \in Frames :
        /\ Done(f) /\ f.batches = 2
        /\ Len(f.tag_ids) > 10
        /\ \E p, q \in CallsOf(f, "delete") :
              /\ p < q
              /\ f.calls[p].res # "ok"
              /\ f.calls[q].res = "ok"
        /\ Cardinality(CallsOf(f, "delete")) = Len(f.tag_ids)

----------------------------------------------------------------------------
(* C9: a bulk request that comes back with an error status other than 404   *)
(* is the last remote call: bulk_delete raises the failure that carries the  *)
(* status code, the handler ends with an error, and an individual delete is  *)
(* only ever issued after a bulk request that came back with 404.            *)
C9_OtherStatusRaises ==
    \A f \in Frames :
        /\ \A p \in CallsOf(f, "bulk_delete") :
              (f.calls[p].res = "status" /\ f.calls[p].status # 404) =>
                  /\ p = Len(f.calls)
                  /\ Done(f)
                  /\ f.outcome = "error"
                  /\ f.bulk = "api_error"
                  /\ f.bulk_status = f.calls[p].status
        /\ \A q \in CallsOf(f, "delete") :
              \E p \in CallsOf(f, "bulk_delete") :
                  /\ p < q
                  /\ f.calls[p].res = "status" /\ f.calls[p].status = 404

(* a bulk request was answered with 403 or 500 *)
C9_Witness ==
    \E f \in Frames :
        /\ Done(f)
        /\ \E p \in CallsOf(f, "bulk_delete") :
              f.calls[p].res = "status" /\ f.calls[p].status \in {403, 500}

----------------------------------------------------------------------------
(* C10: whenever a request issued by bulk_delete (the bulk request or an    *)
(* individual delete) timed out, bulk_delete ends in the timeout error and  *)
(* the handler does not report success.                                     *)
C10_TimeoutIsReported ==
    \A f \in Frames :
        (Done(f) /\ \E p \in Positions(f) :
                      /\ f.calls[p].op \in {"bulk_delete", "delete"}
                      /\ f.calls[p].res = "timeout") =>
            /\ f.bulk = "timeout"
            /\ f.outcome # "success"

----------------------------------------------------------------------------
(* C11: a handler that opened a client session closes it exactly once       *)
(* before its request ends, on a normal return as well as when a remote     *)
(* call or a check inside the session scope raises: the session is open     *)
(* exactly while the handler is in flight, remote calls are only issued by  *)
(* a handler with a session, a finished handler that had a session has      *)
(* closed it once, and two requests never hold the same client.             *)
C11_SessionClosedOnce ==
    /\ \A f \in Frames :
          /\ f.session = "open" <=> (Started(f) /\ ~Done(f))
          /\ f.calls # <<>> => f.client # 0
          /\ f.closes <= 1
          /\ (Done(f) /\ f.client # 0) => (f.session = "closed" /\ f.closes = 1)
          /\ (Done(f) /\ f.client = 0) => (f.session = "none" /\ f.closes = 0)
    /\ \A r, q \in Reqs :
          (r # q /\ frame[r].client # 0 /\ frame[q].client # 0) =>
              frame[r].client # frame[q].client

(* a handler ended by an exception raised inside the session scope (a remote *)
(* call that failed or the 404 check) while another handler's session is open *)
C11_Witness ==
    \E r, q \in Reqs :
        /\ Done(frame[r])
        /\ frame[r].outcome \in {"error", "notfound"}
        /\ frame[r].session = "closed"
        /\ frame[q].session = "open"

(* a handler that returned normally *)
C11_WitnessReturn ==
    \E f \in Frames :
        Done(f) /\ f.outcome = "success" /\ f.session = "closed"

----------------------------------------------------------------------------
(* C12: nothing in the process arbitrates between two merges: a handler     *)
(* whose lookup of the target name is answered goes on to create the target *)
(* exactly when no remote entity has that name at the time of the lookup,   *)
(* whatever the handler of the other request is doing; so two merges with   *)
(* the same new target name can both find it absent and both issue a create *)
(* call for it.                                                             *)
C12_LookupNotArbitrated ==
    [][\A r \in Reqs :
          (/\ frame[r].pc = "get_by_name"
           /\ frame'[r].pc # "get_by_name"
           /\ frame'[r].calls[Len(frame'[r].calls)].res = "ok") =>
              (frame'[r].pc = "create" <=>
                  ~\E e \in entities : IExact(e.name, frame[r].target_name))]_vars

(* two merges in flight together have each looked the same target name up, *)
(* found it absent and issued a create call for it                         *)
C12_Witness ==
    \E r, q \in Reqs :
        /\ r # q
        /\ frame[r].kind = "merge" /\ frame[q].kind = "merge"
        /\ frame[r].target_name = frame[q].target_name
        /\ \A f \in {frame[r], frame[q]} :
              \E p \in CallsOf(f, "get_by_name") :
                  /\ f.calls[p].res = "ok"
                  /\ p < Len(f.calls)
                  /\ f.calls[p + 1].op = "create"
                  /\ f.calls[p + 1].name = f.target_name

----------------------------------------------------------------------------
(* Vocabulary of the properties of the functions *)

(* pattern occurs in name when case is ignored *)
Contains(name, pattern) ==
    LET lowered == LowerName(pattern)
    IN  \E p \in 0..(Len(name) - Len(pattern)) :
            LowerName(SubSeq(name, p + 1, p + Len(pattern))) = lowered

ExcludedByPattern(item) ==
    \E p \in 1..Len(args.exclude_patterns) :
        Contains(item.name, args.exclude_patterns[p])

FilterOps == {"find_low_usage_tags", "find_low_usage_correspondents"}

LowUsageOps == FilterOps \cup {"list_low_usage_items", "list_low_usage_correspondents"}

----------------------------------------------------------------------------
(* C13: whatever the list, max_docs, the patterns and the auto flag, no     *)
(* entity with document_count > max_docs is in a low-usage result, and the  *)
(* filter (for tags and for correspondents) returns every entity with       *)
(* document_count = max_docs that no pattern and no auto-matching           *)
(* exclusion removes: the bound is inclusive.                               *)
C13_BoundInclusive ==
    result.op \in LowUsageOps =>
        /\ \A p \in 1..Len(result.items) :
              result.items[p].document_count <= args.max_docs
        /\ result.op \in FilterOps =>
              \A p \in 1..Len(args.tags) :
                  (/\ args.tags[p].document_count = args.max_docs
                   /\ ~ExcludedByPattern(args.tags[p])
                   /\ ~is_auto(args.tags[p])) =>
                      args.tags[p] \in Range(result.items)

(* the filter returned an entity that sits exactly on the bound and left *)
(* out one that is one document above it                                 *)
C13_Witness ==
    /\ result.op \in FilterOps
    /\ \E p \in 1..Len(result.items) :
          result.items[p].document_count = args.max_docs
    /\ \E p \in 1..Len(args.tags) :
          /\ args.tags[p].document_count = args.max_docs + 1
          /\ args.tags[p] \notin Range(result.items)

----------------------------------------------------------------------------
(* C14: no entity whose name contains an exclude pattern, anywhere in the   *)
(* name and whatever the case of the letters, is in a low-usage result,     *)
(* also when its document_count is 0.                                       *)
C14_PatternExcludes ==
    result.op \in LowUsageOps =>
        \A p \in 1..Len(args.tags) :
            ExcludedByPattern(args.tags[p]) =>
                args.tags[p] \notin Range(result.items)

(* an entity without documents whose name has the pattern in its middle, *)
(* in another case, was left out, next to an entity that was returned     *)
C14_Witness ==
    /\ result.op \in FilterOps
    /\ result.items # <<>>
    /\ \E p \in 1..Len(args.tags) :
          /\ args.tags[p].document_count = 0
          /\ ~is_auto(args.tags[p])
          /\ ExcludedByPattern(args.tags[p])
          /\ \A k \in 1..Len(args.exclude_patterns) :
                ~Search_AtStart(args.exclude_patterns[k], args.tags[p].name)
          /\ args.tags[p] \notin Range(result.items)

----------------------------------------------------------------------------
(* C15: when exclude_auto is true, no entity whose matching algorithm is   *)
(* Auto (6) is in the result of the filter or of a low-usage endpoint,      *)
(* whatever its document count.                                            *)
C15_AutoExcluded ==
    (result.op \in LowUsageOps /\ args.exclude_auto) =>
        \A p \in 1..Len(result.items) : ~is_auto(result.items[p])

(* exclude_auto is true and the filter left out an auto-matching entity *)
(* that is within the bound and matches no pattern                      *)
C15_Witness ==
    /\ result.op \in FilterOps
    /\ args.exclude_auto
    /\ \E p \in 1..Len(args.tags) :
          /\ is_auto(args.tags[p])
          /\ args.tags[p].document_count <= args.max_docs
          /\ ~ExcludedByPattern(args.tags[p])
          /\ args.tags[p] \notin Range(result.items)

----------------------------------------------------------------------------
(* the entities findLowUsage is to return, in their input order *)
ExpectedLowUsage ==
    LET wanted(item) == /\ item.document_count <= args.max_docs
                        /\ ~ExcludedByPattern(item)
                        /\ ~(args.exclude_auto /\ is_auto(item))
    IN  SelectSeq(args.tags, wanted)

(* C16: the filter returns exactly the entities with document_count <=      *)
(* max_docs that match no exclude pattern and are not (exclude_auto and     *)
(* Auto), in their input order, and a low-usage endpoint answers            *)
(* successfully with exactly these entities; so with exclude_auto false an  *)
(* Auto entity within the bound is returned.                               *)
C16_ExactlyTheLowUsage ==
    /\ result.op \in FilterOps => result.items = ExpectedLowUsage
    /\ result.op \in LowUsageOps \ FilterOps =>
          /\ result.status = 200
          /\ Range(result.items) = Range(ExpectedLowUsage)

----------------------------------------------------------------------------
GroupOps ==
    {"group_tags_by_prefix", "group_correspondents_by_prefix",
     "correspondents_merge_suggestions"}

(* the derived key of a name: the part of the lowercased name before its    *)
(* first separator when it has one (splitting then yields two tokens or     *)
(* more), otherwise its first min_prefix_length characters, or all of it    *)
DerivedKey(name) ==
    LET lowered == LowerName(name)
        seps == {p \in 1..Len(name) : name[p] \in Separators}
    IN  IF seps # {}
        THEN SubSeq(lowered, 1, (CHOOSE p \in seps : \A q \in seps : p <= q) - 1)
        ELSE SubSeq(lowered, 1, Min(Len(lowered), args.min_prefix_length))

WithKey(k) == {p \in 1..Len(args.tags) : DerivedKey(args.tags[p].name) = k}

(* C17: an entity is in the group with key k if and only if k is its        *)
(* derived key, k has at least min_prefix_length characters and at least    *)
(* two input entities have derived key k; every returned group has two      *)
(* members or more, each once, and an entity that shares its key with no    *)
(* other entity is in no group.                                             *)
C17_GroupsByDerivedKey ==
    result.op \in GroupOps =>
        LET groups == result.groups
            candidates == DOMAIN groups \cup
                          {DerivedKey(args.tags[p].name) : p \in 1..Len(args.tags)}
        IN  /\ \A k \in candidates : \A p \in 1..Len(args.tags) :
                  (k \in DOMAIN groups /\ args.tags[p] \in Range(groups[k])) <=>
                      (/\ DerivedKey(args.tags[p].name) = k
                       /\ Len(k) >= args.min_prefix_length
                       /\ Cardinality(WithKey(k)) >= 2)
            /\ \A k \in DOMAIN groups :
                  /\ Len(groups[k]) >= 2
                  /\ Len(groups[k]) = Cardinality(Range(groups[k]))
                  /\ Range(groups[k]) \subseteq Range(args.tags)

(* a group holds a name that was split next to one that was cut to its     *)
(* first characters, while another entity, whose key is too short, is in no *)
(* group                                                                    *)
C17_Witness ==
    /\ result.op \in GroupOps
    /\ \E k \in DOMAIN result.groups :
          \E x, y \in Range(result.groups[k]) :
              /\ \E p \in 1..Len(x.name) : x.name[p] \in Separators
              /\ \A p \in 1..Len(y.name) : y.name[p] \notin Separators
              /\ Len(y.name) > Len(k)
    /\ \E p \in 1..Len(args.tags) :
          /\ Len(DerivedKey(args.tags[p].name)) < args.min_prefix_length
          /\ \A k \in DOMAIN result.groups : args.tags[p] \notin Range(result.groups[k])

----------------------------------------------------------------------------
(* C18: in every returned group a member never stands before one with more *)
(* documents, and among members with equal document counts never before one *)
(* whose lowercase name is smaller; so the first member has the largest     *)
(* document count of its group.                                            *)
C18_GroupOrder ==
    result.op \in GroupOps =>
        \A k \in DOMAIN result.groups :
            LET members == result.groups[k]
            IN  /\ \A p, q \in 1..Len(members) :
                      p < q =>
                          \/ members[p].document_count > members[q].document_count
                          \/ /\ members[p].document_count = members[q].document_count
                             /\ ~StrLess(LowerName(members[q].name),
                                         LowerName(members[p].name))
                /\ \A q \in 1..Len(members) :
                      members[1].document_count >= members[q].document_count

(* a group of three whose order is not the input order: the counts decide *)
(* one position and the names another                                     *)
C18_Witness ==
    /\ result.op \in GroupOps
    /\ \E k \in DOMAIN result.groups :
          LET members == result.groups[k]
          IN  /\ Len(members) = 3
              /\ members[1].document_count > members[2].document_count
              /\ members[2].document_count = members[3].document_count
              /\ LowerName(members[2].name) # LowerName(members[3].name)
              /\ members[2].id > members[3].id
              /\ members[1].id > members[2].id

----------------------------------------------------------------------------
HybridOps == {"tags_merge_suggestions"}

GroupsWith(tag) == {k \in DOMAIN result.groups : tag \in Range(result.groups[k])}

C19_WitnessClaimed ==
    /\ result.op \in HybridOps
    /\ args.enable_semantic
    /\ \E pr \in args.similar : \E p, q \in pr :
          /\ GroupsWith(args.tags[p]) # {}
          /\ \A k \in GroupsWith(args.tags[p]) : StartsWith(k, PrefixNamespace)
          /\ GroupsWith(args.tags[q]) = {}

(* semantic grouping is disabled and the map has a group *)
C19_WitnessDisabled ==
    /\ result.op \in HybridOps
    /\ ~args.enable_semantic
    /\ DOMAIN result.groups # {}

----------------------------------------------------------------------------
PageOps == {"list_items", "list_tags"}

(* C20: for every list and every page_size > 0 a paginated list endpoint   *)
(* reports total_pages = max(1, ceil(total / page_size)): at least one      *)
(* page, enough pages for all the items, and no page more than that; an     *)
(* empty result list reports one page.                                      *)
C20_TotalPages ==
    (result.op \in PageOps /\ args.page_size > 0) =>
        /\ result.total_pages >= 1
        /\ result.total_pages * args.page_size >= result.total
        /\ \/ result.total_pages = 1
           \/ (result.total_pages - 1) * args.page_size < result.total

----------------------------------------------------------------------------
(* the positions of the listed items the filter keeps *)
Kept == {p \in 1..Len(args.items) : Contains(args.items[p].name, args.filter)}

(* the 0-based position of a kept item in the filtered list sorted by     *)
(* lowercase name: the kept items of smaller key, and of equal key listed *)
(* earlier, come before it                                                *)
PositionOf(p) ==
    LET key(q) == LowerName(args.items[q].name)
    IN  Cardinality({q \in Kept : \/ StrLess(key(q), key(p))
                                  \/ key(q) = key(p) /\ q < p})

(* the positions of the sorted filtered list that make up one page *)
PositionsOfPage(page) ==
    {k \in 0..(Cardinality(Kept) - 1) :
        (page - 1) * args.page_size <= k /\ k <= page * args.page_size - 1}

(* C21: for page >= 1 and page_size > 0 a list endpoint returns exactly    *)
(* the items at positions (page-1)*page_size .. page*page_size - 1 of the   *)
(* filtered list sorted by lowercase name ascending, in that order; the     *)
(* pages 1..total_pages are pairwise disjoint and together hold every       *)
(* position once, a page beyond the last is empty, and total is the size of *)
(* the whole filtered list whatever the page.                               *)
C21_PageIsItsSlice ==
    (result.op \in PageOps /\ args.page >= 1 /\ args.page_size > 0) =>
        LET here == PositionsOfPage(args.page)
            pages == 1..result.total_pages
        IN  /\ result.total = Cardinality(Kept)
            /\ Len(result.items) = Cardinality(here)
            /\ \A k \in 1..Len(result.items) :
                  /\ result.items[k].id \in Kept
                  /\ result.items[k] = args.items[result.items[k].id]
                  /\ PositionOf(result.items[k].id)
                        = (args.page - 1) * args.page_size + k - 1
            /\ \A p, q \in pages :
                  p # q => PositionsOfPage(p) \cap PositionsOfPage(q) = {}
            /\ UNION {PositionsOfPage(p) : p \in pages}
                  = 0..(Cardinality(Kept) - 1)
            /\ args.page > result.total_pages => result.items = <<>>

(* the second of two pages of a filtered list: the item the remote system *)
(* lists first is the last one in the order of the lowercase names       *)
C21_Witness ==
    /\ result.op \in PageOps
    /\ args.page = 2
    /\ args.page_size = 1
    /\ args.filter # <<>>
    /\ result.total = 2
    /\ result.total_pages = 2
    /\ Len(result.items) = 1
    /\ result.items[1].id = 1

(* a page beyond the last one of a list that is not empty *)
C21_WitnessBeyond ==
    /\ result.op \in PageOps
    /\ args.page_size > 0
    /\ result.total > 0
    /\ args.page > result.total_pages
    /\ result.items = <<>>

----------------------------------------------------------------------------
UpdateOps == {"update_item", "update_tag", "update_correspondent"}

(* the fields of the request the kind of the endpoint can update *)
Updatable ==
    IF result.op = "update_tag" \/ (result.op = "update_item" /\ args.has_color)
    THEN args.fields
    ELSE args.fields \ {"color"}

(* C22: a PATCH update request that supplies no updatable field (color     *)
(* does not count for kinds other than tag) fails with a client validation *)
(* error, a status of the 400 class and not of the 500 class, and issues   *)
(* no update call to the remote system.                                    *)
C22_NoFieldsIsClientError ==
    (result.op \in UpdateOps /\ Updatable = {}) =>
        /\ result.status \in 400..499
        /\ result.calls = <<>>
        /\ entities = {[id |-> 1, name |-> "A"], [id |-> 2, name |-> "B"]}

----------------------------------------------------------------------------
ParseOps == {"parse_response"}

(* C23: every group of the map the parser returns has at least 2 members,  *)
(* pairwise distinct strings, on the JSON path and on the recovery path of *)
(* a truncated answer alike; a value that is not a list, or has fewer than  *)
(* 2 distinct members, gives no group.                                      *)
C23_GroupsOfDistinctMembers ==
    result.op \in ParseOps =>
        \A key \in DOMAIN result.groups :
            LET members == result.groups[key]
            IN  /\ Len(members) >= 2
                /\ \A p, q \in 1..Len(members) : p # q => members[p] # members[q]

----------------------------------------------------------------------------
(* the entities that bear the target name of the request when case is ignored; *)
(* requests being served one after the other, the remote system the lookup    *)
(* sees is the one the request was issued against                             *)
NamedAsTarget(f) == {e \in EntitiesBefore(f) : IExact(e.name, f.target_name)}

(* C24: in every merge the target is resolved by one lookup by name, and a  *)
(* create call is issued if and only if that lookup returned no entity: at  *)
(* most one lookup and at most one create call per merge, the create call   *)
(* right after a lookup that found nothing, no create call when an entity   *)
(* bears the target name in whatever case, and no call on documents or      *)
(* deletion before the target is resolved.                                  *)
C24_CreateIffLookupEmpty ==
    \A f \in Frames :
        f.kind = "merge" =>
            LET c == f.calls
                lookups == CallsOf(f, "get_by_name")
                creates == CallsOf(f, "create")
            IN  /\ Cardinality(lookups) <= 1
                /\ Cardinality(creates) <= 1
                /\ \A p \in creates :
                      /\ p - 1 \in lookups
                      /\ c[p - 1].res = "ok"
                      /\ c[p].name = f.target_name
                      /\ NamedAsTarget(f) = {}
                /\ \A p \in lookups :
                      /\ c[p].name = f.target_name
                      /\ (c[p].res = "ok" /\ NamedAsTarget(f) = {}) =>
                            \/ p + 1 \in creates
                            \/ p = Len(c) /\ f.pc = "create"
                      /\ (c[p].res = "ok" /\ NamedAsTarget(f) # {}) =>
                            f.target \in Ids(NamedAsTarget(f))
                /\ \A p \in Positions(f) :
                      c[p].op \in {"get_documents", "set_on_documents",
                                   "bulk_delete", "delete"} =>
                          /\ lookups # {}
                          /\ \A q \in lookups : q < p /\ c[q].res = "ok"

(* a merge into a name an entity bears in another case went through without *)
(* a create call                                                            *)
C24_Witness ==
    \E f \in Frames :
        /\ f.kind = "merge"
        /\ Done(f) /\ f.outcome = "success"
        /\ CallsOf(f, "create") = {}
        /\ \E e \in NamedAsTarget(f) : e.name # f.target_name /\ f.target = e.id

(* a merge into a new name issued its one create call after its lookup *)
C24_WitnessCreated ==
    \E f \in Frames :
        /\ f.kind = "merge"
        /\ Done(f) /\ f.outcome = "success"
        /\ NamedAsTarget(f) = {}
        /\ Cardinality(CallsOf(f, "create")) = 1
        /\ f.target \notin Ids(EntitiesBefore(f))

----------------------------------------------------------------------------
(* the document lists of all the resolved sources have been fetched *)
CollectedAll(f) ==
    /\ IdsOfCalls(f.calls, "get_documents") = ResolvedList(f)
    /\ \A p \in CallsOf(f, "get_documents") : f.calls[p].res = "ok"

(* C25: a merge issues at most one attach call: exactly one when the       *)
(* document union is not empty, carrying the target's id and exactly the    *)
(* documents of the union, each once and none that is associated with no    *)
(* resolved source, and none when the union is empty.                       *)
C25_OneAttachWithTheUnion ==
    \A f \in Frames :
        f.kind = "merge" =>
            LET c == f.calls
                attaches == CallsOf(f, "set_on_documents")
            IN  /\ Cardinality(attaches) <= 1
                /\ \A p \in attaches :
                      /\ c[p].docs = DocUnion(f)
                      /\ c[p].docs # {}
                      /\ c[p].id = f.target
                      /\ CollectedAll(f)
                /\ DocUnion(f) = {} => attaches = {}
                /\ (CollectedAll(f) /\ DocUnion(f) # {}) =>
                      \/ Cardinality(attaches) = 1
                      \/ attaches = {} /\ f.pc = "set_on_documents"
                /\ (Done(f) /\ f.outcome = "success" /\ DocUnion(f) # {}) =>
                      Cardinality(attaches) = 1

(* one attach call for two sources that share a document, which it carries *)
(* once among the three of the union                                        *)
C25_Witness ==
    \E f \in Frames :
        /\ f.kind = "merge"
        /\ Done(f) /\ f.outcome = "success"
        /\ Cardinality(Resolved(f)) = 2
        /\ \E d \in DocIds : Resolved(f) \subseteq DocEntsBefore(f)[d]
        /\ \E p \in CallsOf(f, "set_on_documents") :
              /\ Cardinality(f.calls[p].docs) = 3
              /\ f.calls[p].id = f.target

(* a merge of a source without documents went through without attach call *)
C25_WitnessEmpty ==
    \E f \in Frames :
        /\ f.kind = "merge"
        /\ Done(f) /\ f.outcome = "success"
        /\ DocUnion(f) = {}
        /\ CallsOf(f, "get_documents") # {}
        /\ CallsOf(f, "set_on_documents") = {}

----------------------------------------------------------------------------
FetchOps == {"get_all_tags", "get_documents_with_tag"}

(* the results of the pages of a list of pages, one page after the other *)
RECURSIVE ResultsOf(_)
ResultsOf(pages) ==
    IF pages = <<>> THEN <<>>
    ELSE PageResults[Head(pages)] \o ResultsOf(Tail(pages))

(* following the next links from a page comes to a page without one *)
RECURSIVE EndsWithin(_, _)
EndsWithin(page, steps) ==
    \/ args.links[page] = 0
    \/ steps > 0 /\ EndsWithin(args.links[page], steps - 1)

ChainFinite == EndsWithin(1, MaxRemotePages)

FetchEnded == result.op \in FetchOps /\ result.pc \in {"returned", "raised"}

(* the pages a fetch has got are the chain of the next links from the     *)
(* first page, it holds their results in that order, and it returns at    *)
(* the first page without a next link and at no other                     *)
FollowsNextLinks ==
    result.op \in FetchOps =>
        LET v == result.visited
            n == Len(v)
        IN  /\ n >= 1 => v[1] = 1
            /\ \A k \in 1..(n - 1) : args.links[v[k]] # 0 /\ v[k + 1] = args.links[v[k]]
            /\ result.items = ResultsOf(v)
            /\ result.pc = "returned" => n >= 1 /\ args.links[v[n]] = 0
            /\ (result.pc = "loop" /\ n >= 1) =>
                  /\ args.links[v[n]] # 0
                  /\ result.url.page = args.links[v[n]]
            /\ result.pc = "raised" => n = 0 \/ args.links[v[n]] # 0

(* C26: a fetch-all operation requests the pages by following the next     *)
(* link of the remote system, ends as soon as a page carries no next link,  *)
(* and so ends whenever the chain of next links is finite, and returns the  *)
(* entities of the visited pages in page order, each page's once.           *)
C26_FetchFollowsNextLinks ==
    /\ []FollowsNextLinks
    /\ (ChainFinite ~> FetchEnded)

(* three pages were fetched over absolute next links, the second one empty *)
C26_Witness ==
    /\ result.op \in FetchOps
    /\ result.pc = "returned"
    /\ args.host = "base"
    /\ result.visited = <<1, 2, 3>>
    /\ result.items = <<1, 2, 3>>

(* a fetch that goes round a cycle of next links *)
C26_WitnessCycle ==
    /\ result.op \in FetchOps
    /\ result.pc = "loop"
    /\ ~ChainFinite
    /\ Len(result.visited) = MaxVisits

----------------------------------------------------------------------------
(* the ids a request asked the remote system to delete *)
AskedToDelete(f) ==
    UNION {Range(f.calls[p].ids) : p \in CallsOf(f, "bulk_delete")}
    \cup {f.calls[p].id : p \in CallsOf(f, "delete")}

(* C27: whenever merge or the delete endpoint reports success, every id it *)
(* asked the remote system to delete no longer exists remotely: a deletion  *)
(* that did not take place is never reported as success.                    *)
C27_SuccessMeansDeleted ==
    \A f \in Frames :
        (f.kind \in {"merge", "delete"} /\ Done(f) /\ f.outcome = "success") =>
            AskedToDelete(f) \cap Ids(entities) = {}

----------------------------------------------------------------------------
(* the entities a step deletes *)
DeletedByStep == Ids(entities) \ Ids(entities')

(* C28: in every interleaving of a merge with other requests that associate *)
(* documents with one of its sources, each document that is associated with *)
(* a source at the moment the merge deletes that source is associated with   *)
(* the target once the source is gone: no document loses its classification  *)
(* because it was attached to a source after the merge collected the ids.    *)
(* The target is taken to exist still when the source is deleted.            *)
C28_NoDocumentLosesItsEntity ==
    [][\A r \in Reqs :
          (/\ frame[r].kind = "merge"
           /\ Len(frame'[r].calls) = Len(frame[r].calls) + 1
           /\ DeletedByStep # {}
           /\ frame[r].target \in Ids(entities')) =>
              \A d \in DocIds :
                  docEnts[d] \cap DeletedByStep # {} =>
                      frame[r].target \in docEnts'[d]]_vars

----------------------------------------------------------------------------
(* the merge ended in an error with no attach call and no delete call issued *)
FailedBeforeAttach(f) ==
    /\ f.kind = "merge"
    /\ Done(f)
    /\ f.outcome # "success"
    /\ \A p \in Positions(f) :
          f.calls[p].op \notin {"set_on_documents", "bulk_delete", "delete"}

(* C29: if a merge ends in an error before the attach call is issued (a    *)
(* validation error, NotFound, or a failing entity fetch, target lookup,    *)
(* target creation or document-list fetch), the entities and the document   *)
(* associations of the remote system are the same as before the request;    *)
(* no newly created target entity is left behind.                           *)
C29_ErrorBeforeAttachLeavesNoTrace ==
    \A f \in Frames :
        FailedBeforeAttach(f) =>
            /\ entities = EntitiesBefore(f)
            /\ docEnts = DocEntsBefore(f)

----------------------------------------------------------------------------
(* no value occurs twice in the list *)
NoRepeat(s) == \A p, q \in 1..Len(s) : p # q => s[p] # s[q]

(* C30: a merge whose source_ids repeat an id behaves like the request with *)
(* the duplicates removed: the id list passed to bulk delete holds each id   *)
(* at most once, the documents of each source are fetched once, and the      *)
(* reported merged count is the number of distinct resolved source entities. *)
C30_DuplicateSourcesCountOnce ==
    \A f \in Frames :
        f.kind = "merge" =>
            /\ \A p \in CallsOf(f, "bulk_delete") : NoRepeat(f.calls[p].ids)
            /\ NoRepeat(IdsOfCalls(f.calls, "get_documents"))
            /\ (Done(f) /\ f.outcome = "success") =>
                  f.merged = Cardinality(Resolved(f))

====
